---- MODULE Spec2Model ----
(***************************************************************************)
(* Model of midi-hack: the logical clock (time.rs), the KeyDb store with   *)
(* its linear event log and its hold projection (key_handler.rs), the      *)
(* pattern matchers (lib.rs, music.rs) and the KeyBuffer dispatch loop     *)
(* (main.rs).                                                              *)
(*                                                                         *)
(* The module holds several specifications over one set of variables; a    *)
(* specification leaves the variables of the other parts at their initial  *)
(* values:                                                                 *)
(*   SpecHold   HoldData driven by one caller: update, clear, clock ticks  *)
(*   SpecDb     KeyDb shared by a writer thread (push_msg, clear) and a    *)
(*              reader thread (flat_message_log, get_hold_data,            *)
(*              print_holds), with its two RwLocks                         *)
(*   SpecLoop   the KeyBuffer dispatch loop with its two bounded channels, *)
(*              the device callback, the heartbeat thread and the stdin    *)
(*              loop; SpecLoopFair adds that the loop thread keeps running *)
(*   SpecListeners  the dispatch loop with the songs that end a run: the   *)
(*              chord, and the major scale followed by one more note       *)
(*   SpecQuery  last_n_messages_reverse_chron on a log that grows          *)
(*   SpecScale  scale_matches_increments on 16-event inputs                *)
(*   SpecOctaves  scale_matches_increments on inputs of 0 to 32 events     *)
(*   SpecRun    detect_run on short runs and increment lists               *)
(*   SpecClock  threads that call update_time and get_time                 *)
(*   SpecChord  is_minor_maj_7_chord on logs around the chord C Eb G B     *)
(*   SpecTurnsFair  the dispatch loop with one song, the loop thread       *)
(*              running for ever                                           *)
(*   SpecStore  KeyDb used by one thread only: push_msg, clear, ticks      *)
(*   SpecPractice  the practice programs reading a KeyDb that is pushed   *)
(*              to and cleared meanwhile                                   *)
(*   SpecLongScale  the dispatch loop while a scale of two octaves is      *)
(*              played, with few heartbeats                                *)
(***************************************************************************)
EXTENDS Integers, Sequences, FiniteSets, TLC

VARIABLES
    TIMER,          \* time.rs: static TIMER: AtomicU64
    holds,          \* HoldData: [max_bucket_count, buf]; buf maps a tick to its bucket
    panic,          \* "none", or the panic that ended the calling thread
    hist,           \* history: the last update applied to holds since the last clear (<<>>: none)
    inserted,       \* history: the ticks at which a bucket was inserted since the last clear
    linear_buf,     \* KeyDb.linear_buf: the linear event log
    lock,           \* the RwLocks of KeyDb: who holds linear_buf's and holds'
    pc,             \* where each thread of SpecDb is
    w_msg,          \* the argument of the push_msg in progress
    w_done,         \* history: the call of the writer that returned last
    applied,        \* history: the events update() was called with since holds was last cleared
    view,           \* the value the reader's last call returned
    kb,             \* KeyBuffer: [buf, most_recent_insert, heartbeat_count]
    playback_chan,  \* the events in the channel of playback_sender
    control_chan,   \* the control messages in the channel of control_sender
    loop_pc,        \* the receive the loop thread does next, or "panicked"
    song,           \* which song the device plays
    n_sent,         \* history: how many events the device callback has sent
    accepted,       \* history: the events accept() was called with, in order
    last,           \* history: the last step of the loop and what it found
    hb_since_reset, \* history: heartbeats handled since the run was last reset
    evt_late,       \* history: an event was accepted since the last reset, after
                    \* the second heartbeat since that reset
    run_start,      \* history: how many events had been accepted at the last reset
    q_log,          \* the log that is queried
    q_call,         \* history: the last query, the log it found and its result
    s_events,       \* the events given to a matcher
    s_edits,        \* how many times the input was altered
    s_call,         \* history: the last call of a matcher and its result
    c_seen,         \* history: for each thread, its last two reads of get_time()
    c_returned,     \* history: the values update_time() returned, in call order
    cleared         \* history: log and projection as the last clears in a row left them

holdVars == <<TIMER, holds, panic, hist, inserted>>
dbVars == <<linear_buf, lock, pc, w_msg, w_done, applied, view>>
loopVars == <<kb, playback_chan, control_chan, loop_pc, song, n_sent, accepted, last,
              hb_since_reset, evt_late, run_start>>
queryVars == <<q_log, q_call>>
scaleVars == <<s_events, s_edits, s_call>>
clockVars == <<c_seen, c_returned>>
otherVars == <<loopVars, queryVars, scaleVars, clockVars>>
restVars == <<otherVars, cleared>>
vars == <<holdVars, dbVars, loopVars, queryVars, scaleVars, clockVars, cleared>>

----------------------------------------------------------------------------
(* Bounds of the model *)

MaxTicks == 2           \* the clock ticker runs at most this many times
MaxBuckets == 2         \* max_bucket_count is drawn from 0..MaxBuckets
MaxLog == 2             \* push_msg is not called on a log of this length

----------------------------------------------------------------------------
(* midi.rs: KeyMessage and MidiMessageTypes *)

NoteOn == "NoteOn"
NoteOff == "NoteOff"
MidiMessageTypes == {NoteOn, NoteOff}

KeyMessage(ts, ty, k) == [timestamp |-> ts, message_type |-> ty, key |-> k]

----------------------------------------------------------------------------
(* time.rs: the logical clock *)

INCREMENT == 100

get_time == TIMER

\* update_time: fetch_add(INCREMENT); the value it returns is the one replaced
update_time_value(t) == t + INCREMENT

----------------------------------------------------------------------------
(* key_handler.rs: HoldStatus, KeyStatus, HoldData *)

EMPTY == "EMPTY"
PRESS == "PRESS"
DOWN == "DOWN"

down_like(status) == status = PRESS \/ status = DOWN

KeyStatus(k, s) == [key |-> k, status |-> s]

\* An empty BTreeMap: the function with the empty domain
EmptyMap == [t \in {} |-> <<>>]

HoldData_new(bucket_count) == [max_bucket_count |-> bucket_count, buf |-> EmptyMap]

\* HoldData::clear that drops only the newest bucket
HoldData_clear_Newest(hd) ==
    IF DOMAIN hd.buf = {} THEN hd
    ELSE [hd EXCEPT !.buf = [t \in (DOMAIN hd.buf) \ {CHOOSE x \in DOMAIN hd.buf :
                                                        \A y \in DOMAIN hd.buf : y <= x}
                             |-> hd.buf[t]]]

\* clear that also gives up one bucket of capacity
HoldData_clear_Shrink(hd) ==
    [hd EXCEPT !.buf = EmptyMap, !.max_bucket_count = IF @ > 0 THEN @ - 1 ELSE 0]

HoldData_clear(hd) == [hd EXCEPT !.buf = EmptyMap]

SetMax(S) == CHOOSE x \in S : \A y \in S : y <= x
SetMin(S) == CHOOSE x \in S : \A y \in S : x <= y

\* BTreeMap::insert
MapInsert(buf, t, v) == [u \in (DOMAIN buf) \cup {t} |-> IF u = t THEN v ELSE buf[u]]

\* BTreeMap::first_entry().unwrap().remove() on a non-empty map
RemoveFirst(buf) == [u \in (DOMAIN buf) \ {SetMin(DOMAIN buf)} |-> buf[u]]

\* CarryForward with a NoteOff that ends only the holds that are DOWN
CarryForward_DownOnly(hold, msg) ==
    IF /\ msg.message_type = NoteOff
       /\ hold.key = msg.key
       /\ hold.status = DOWN
    THEN KeyStatus(msg.key, EMPTY)
    ELSE IF hold.status = PRESS
         THEN KeyStatus(hold.key, DOWN)
         ELSE hold

\* the closure of update's map(): the status one old entry is carried forward with
CarryForward(hold, msg) ==
    IF /\ msg.message_type = NoteOff
       /\ hold.key = msg.key
       /\ (hold.status = DOWN \/ hold.status = PRESS)
    THEN KeyStatus(msg.key, EMPTY)
    ELSE IF hold.status = PRESS
         THEN KeyStatus(hold.key, DOWN)
         ELSE hold

\* NewHolds that carries the EMPTY entries forward as well
NewHolds_KeepEmpty(old_holds, msg) ==
    LET carried == [i \in 1..Len(old_holds) |-> CarryForward(old_holds[i], msg)]
    IN  IF msg.message_type = NoteOn
        THEN Append(carried, KeyStatus(msg.key, PRESS))
        ELSE carried

\* NewHolds with a NoteOn that replaces the entries its key already has
NewHolds_Replace(old_holds, msg) ==
    LET kept == SelectSeq(old_holds, LAMBDA hold :
                    /\ hold.status # EMPTY
                    /\ ~(msg.message_type = NoteOn /\ hold.key = msg.key))
        carried == [i \in 1..Len(kept) |-> CarryForward(kept[i], msg)]
    IN  IF msg.message_type = NoteOn
        THEN Append(carried, KeyStatus(msg.key, PRESS))
        ELSE carried

\* NewHolds with a NoteOff that ends the first hold of its key only
NewHolds_ReleaseFirst(old_holds, msg) ==
    LET kept == SelectSeq(old_holds, LAMBDA hold : hold.status # EMPTY)
        carried == [i \in 1..Len(kept) |->
                       IF /\ msg.message_type = NoteOff
                          /\ kept[i].key = msg.key
                          /\ \E j \in 1..(i - 1) : kept[j].key = msg.key
                       THEN IF kept[i].status = PRESS
                            THEN KeyStatus(kept[i].key, DOWN)
                            ELSE kept[i]
                       ELSE CarryForward(kept[i], msg)]
    IN  IF msg.message_type = NoteOn
        THEN Append(carried, KeyStatus(msg.key, PRESS))
        ELSE carried

\* update, lines 67-99: the entry list computed from the newest bucket
NewHolds(old_holds, msg) ==
    LET kept == SelectSeq(old_holds, LAMBDA hold : hold.status # EMPTY)
        carried == [i \in 1..Len(kept) |-> CarryForward(kept[i], msg)]
    IN  IF msg.message_type = NoteOn
        THEN Append(carried, KeyStatus(msg.key, PRESS))
        ELSE carried

\* update, lines 102-104: while len >= max_bucket_count, remove the first entry;
\* unwrap() of first_entry() on an empty map panics (the map is left as it is then)
RECURSIVE EvictLoop(_, _)
EvictLoop(buf, cap) ==
    IF Cardinality(DOMAIN buf) >= cap
    THEN IF DOMAIN buf = {}
         THEN [buf |-> buf, panicked |-> TRUE]
         ELSE EvictLoop(RemoveFirst(buf), cap)
    ELSE [buf |-> buf, panicked |-> FALSE]

\* update that makes room (lines 102-104) whatever the tick of the newest bucket
HoldData_update_AlwaysEvict(hd, msg, new_ts) ==
    IF DOMAIN hd.buf # {}
    THEN LET old_ts == SetMax(DOMAIN hd.buf)
             new_holds == NewHolds(hd.buf[old_ts], msg)
             evicted == EvictLoop(hd.buf, hd.max_bucket_count)
         IN  IF evicted.panicked
             THEN [hd |-> [hd EXCEPT !.buf = evicted.buf], panicked |-> TRUE]
             ELSE [hd |-> [hd EXCEPT !.buf = MapInsert(evicted.buf, new_ts, new_holds)],
                   panicked |-> FALSE]
    ELSE IF msg.message_type = NoteOn
         THEN [hd |-> [hd EXCEPT !.buf = MapInsert(hd.buf, new_ts,
                                                  <<KeyStatus(msg.key, PRESS)>>)],
               panicked |-> FALSE]
         ELSE [hd |-> hd, panicked |-> FALSE]

\* update that makes room (lines 102-104) before its first bucket as well
HoldData_update_EvictFirst(hd, msg, new_ts) ==
    LET old_holds == IF DOMAIN hd.buf # {} THEN hd.buf[SetMax(DOMAIN hd.buf)] ELSE <<>>
        new_holds == NewHolds(old_holds, msg)
        evicted == IF DOMAIN hd.buf = {} \/ new_ts # SetMax(DOMAIN hd.buf)
                   THEN EvictLoop(hd.buf, hd.max_bucket_count)
                   ELSE [buf |-> hd.buf, panicked |-> FALSE]
    IN  IF DOMAIN hd.buf = {} /\ msg.message_type = NoteOff
        THEN [hd |-> hd, panicked |-> FALSE]
        ELSE IF evicted.panicked
             THEN [hd |-> [hd EXCEPT !.buf = evicted.buf], panicked |-> TRUE]
             ELSE [hd |-> [hd EXCEPT !.buf = MapInsert(evicted.buf, new_ts, new_holds)],
                   panicked |-> FALSE]

\* update that keys the bucket it writes by the timestamp of the event
HoldData_update_KeyedByStamp(hd, msg, new_ts) ==
    IF DOMAIN hd.buf # {}
    THEN LET old_ts == SetMax(DOMAIN hd.buf)
             new_holds == NewHolds(hd.buf[old_ts], msg)
             evicted == IF msg.timestamp # old_ts
                        THEN EvictLoop(hd.buf, hd.max_bucket_count)
                        ELSE [buf |-> hd.buf, panicked |-> FALSE]
         IN  IF evicted.panicked
             THEN [hd |-> [hd EXCEPT !.buf = evicted.buf], panicked |-> TRUE]
             ELSE [hd |-> [hd EXCEPT !.buf = MapInsert(evicted.buf, msg.timestamp,
                                                      new_holds)],
                   panicked |-> FALSE]
    ELSE IF msg.message_type = NoteOn
         THEN [hd |-> [hd EXCEPT !.buf = MapInsert(hd.buf, msg.timestamp,
                                                  <<KeyStatus(msg.key, PRESS)>>)],
               panicked |-> FALSE]
         ELSE [hd |-> hd, panicked |-> FALSE]

\* HoldData::update(msg) with get_time() = new_ts: the HoldData it leaves, and
\* whether it panicked
HoldData_update(hd, msg, new_ts) ==
    IF DOMAIN hd.buf # {}
    THEN LET old_ts == SetMax(DOMAIN hd.buf)
             new_holds == NewHolds(hd.buf[old_ts], msg)
             evicted == IF new_ts # old_ts
                        THEN EvictLoop(hd.buf, hd.max_bucket_count)
                        ELSE [buf |-> hd.buf, panicked |-> FALSE]
         IN  IF evicted.panicked
             THEN [hd |-> [hd EXCEPT !.buf = evicted.buf], panicked |-> TRUE]
             ELSE [hd |-> [hd EXCEPT !.buf = MapInsert(evicted.buf, new_ts, new_holds)],
                   panicked |-> FALSE]
    ELSE IF msg.message_type = NoteOn
         THEN [hd |-> [hd EXCEPT !.buf = MapInsert(hd.buf, new_ts,
                                                  <<KeyStatus(msg.key, PRESS)>>)],
               panicked |-> FALSE]
         ELSE [hd |-> hd, panicked |-> FALSE]

----------------------------------------------------------------------------
(* SpecHold: one caller drives a HoldData while the clock ticks *)

HoldKeys == {60, 61}
HoldStamps == {0}
\* no NoteOn is fed to a bucket that already has as many entries as there are keys
\* (a key can still be pressed twice without a release in between)
MaxEntries == Cardinality(HoldKeys)
HoldMessages == {KeyMessage(ts, ty, k) : ts \in HoldStamps, ty \in MidiMessageTypes, k \in HoldKeys}

\* the entries of the newest bucket of a map, none when the map is empty
NewestBucket(buf) == IF DOMAIN buf = {} THEN <<>> ELSE buf[SetMax(DOMAIN buf)]

\* whether a bucket has an entry for key k
HasKey(bucket, k) == \E i \in 1..Len(bucket) : bucket[i].key = k

\* the statuses a bucket records for key k, in entry order
Statuses(bucket, k) ==
    LET of_k == SelectSeq(bucket, LAMBDA hold : hold.key = k)
    IN  [i \in 1..Len(of_k) |-> of_k[i].status]

\* the history record of update(msg) at tick ts: before, the statuses the newest
\* bucket recorded for the key when the update began (fresh: none); wrote, the
\* update inserted a bucket; on_empty, the update found no bucket; after_press, the
\* update before it was the NoteOn of the same key, fresh, at an earlier tick
Remember(h, msg, ts, before, wrote, on_empty) ==
    <<[msg |-> msg, ts |-> ts, before |-> before, fresh |-> before = <<>>, wrote |-> wrote,
       on_empty |-> on_empty,
       after_press |-> /\ h # <<>>
                       /\ h[1].msg.message_type = NoteOn
                       /\ h[1].msg.key = msg.key
                       /\ h[1].fresh /\ h[1].wrote
                       /\ h[1].ts < ts]>>

\* KeyBuffer::new
KeyBuffer_new == [buf |-> <<>>, most_recent_insert |-> 0, heartbeat_count |-> 0]

\* what `last` records of a step of the loop: the step, and the heartbeats since
\* the last reset, evt_late and the length of the buffer as the step found them
Step(name, hb, late, len) == [step |-> name, hb |-> hb, late |-> late, len |-> len]

\* the loop has not started, nothing was sent
LoopIdle ==
    /\ kb = KeyBuffer_new
    /\ playback_chan = <<>>
    /\ control_chan = <<>>
    /\ loop_pc = "playback"
    /\ song = 1
    /\ n_sent = 0
    /\ accepted = <<>>
    /\ last = Step("none", 0, FALSE, 0)
    /\ hb_since_reset = 0
    /\ evt_late = FALSE
    /\ run_start = 0

NoCall == [of |-> "none"]

\* no query and no match was made
QueryIdle == q_log = <<>> /\ q_call = NoCall
ScaleIdle == s_events = <<>> /\ s_edits = 0 /\ s_call = NoCall

ClockThreads == {"t1", "t2"}

\* no thread has read the clock, update_time was not called
ClockIdle ==
    /\ c_seen = [t \in ClockThreads |-> [prev |-> 0, cur |-> 0]]
    /\ c_returned = <<>>

RestIdle == LoopIdle /\ QueryIdle /\ ScaleIdle /\ ClockIdle

\* the last two elements of a sequence
LastTwo(seq) == IF Len(seq) <= 2 THEN seq ELSE SubSeq(seq, Len(seq) - 1, Len(seq))

\* KeyDb::new: an empty log, both locks free; the threads have not called yet
DbIdle ==
    /\ linear_buf = <<>>
    /\ lock = [log |-> [writer |-> FALSE, readers |-> {}],
               holds |-> [writer |-> FALSE, readers |-> {}, poisoned |-> FALSE]]
    /\ pc = [t \in {"w", "r"} |-> "idle"]
    /\ w_msg = KeyMessage(0, NoteOff, 0)
    /\ w_done = "none"
    /\ applied = <<>>
    /\ view = [of |-> "none", value |-> <<>>]
    /\ cleared = <<>>

InitHold ==
    /\ DbIdle
    /\ RestIdle
    /\ TIMER = 0
    /\ \E c \in 0..MaxBuckets : holds = HoldData_new(c)
    /\ panic = "none"
    /\ hist = <<>>
    /\ inserted = {}

\* the ticker thread of start_timer: update_time()
HoldTick ==
    /\ TIMER < MaxTicks * INCREMENT
    /\ TIMER' = update_time_value(TIMER)
    /\ UNCHANGED <<holds, panic, hist, inserted>>
    /\ UNCHANGED dbVars
    /\ UNCHANGED restVars

\* holds.update(msg)
HoldUpdate(msg) ==
    /\ panic = "none"
    /\ msg.message_type = NoteOn => Len(NewestBucket(holds.buf)) < MaxEntries
    /\ LET r == HoldData_update(holds, msg, get_time)
           wrote == ~r.panicked /\ (DOMAIN holds.buf # {} \/ msg.message_type = NoteOn)
       IN  /\ holds' = r.hd
           /\ panic' = IF r.panicked THEN "unwrap_none" ELSE "none"
           /\ hist' = IF r.panicked THEN hist
                      ELSE Remember(hist, msg, get_time,
                                    Statuses(NewestBucket(holds.buf), msg.key), wrote,
                                    DOMAIN holds.buf = {})
           /\ inserted' = IF wrote THEN inserted \cup {get_time} ELSE inserted
    /\ UNCHANGED TIMER
    /\ UNCHANGED dbVars
    /\ UNCHANGED restVars

\* holds.clear()
HoldClear ==
    /\ panic = "none"
    /\ holds' = HoldData_clear(holds)
    /\ hist' = <<>>
    /\ inserted' = {}
    /\ UNCHANGED <<TIMER, panic>>
    /\ UNCHANGED dbVars
    /\ UNCHANGED restVars

NextHold ==
    \/ HoldTick
    \/ \E msg \in HoldMessages : HoldUpdate(msg)
    \/ HoldClear

SpecHold == InitHold /\ [][NextHold]_vars

----------------------------------------------------------------------------
(* Claims about HoldData, under SpecHold *)

\* the last update was the release of key k, following directly the fresh press of
\* k at an earlier tick, and it inserted its bucket
PressedThenReleased(k) ==
    /\ hist # <<>>
    /\ hist[1].msg.message_type = NoteOff
    /\ hist[1].msg.key = k
    /\ hist[1].after_press
    /\ hist[1].wrote

\* the last update was the fresh press of key k
FreshlyPressed(k) ==
    /\ hist # <<>>
    /\ hist[1].msg.message_type = NoteOn
    /\ hist[1].msg.key = k
    /\ hist[1].fresh

\* C1 as stated: a key pressed and then released at a later tick, with no event in
\* between, is recorded Press, then Down, then Empty: the bucket before the one
\* that records Empty records Down.
C1_PressDownEmpty ==
    \A k \in HoldKeys :
        PressedThenReleased(k) =>
            /\ hist[1].before = <<DOWN>>
            /\ Statuses(NewestBucket(holds.buf), k) = <<EMPTY>>

\* C1, amended: the press writes a bucket recording Press for the key; the release,
\* when its update completes, writes the next bucket, which records Empty, and the
\* bucket before it is still the one recording Press (no bucket records Down, as
\* buckets are written by updates only); and a bucket written by any later update
\* records Empty for a key only when that update is itself a NoteOff of the key.
C1_PressThenEmpty ==
    \A k \in HoldKeys :
        panic = "none" =>
        /\ FreshlyPressed(k) => Statuses(NewestBucket(holds.buf), k) = <<PRESS>>
        /\ PressedThenReleased(k) =>
               /\ hist[1].before = <<PRESS>>
               /\ Statuses(NewestBucket(holds.buf), k) = <<EMPTY>>
        /\ (\E i \in 1..Len(NewestBucket(holds.buf)) :
               NewestBucket(holds.buf)[i] = KeyStatus(k, EMPTY))
             => /\ hist # <<>>
                /\ hist[1].msg.message_type = NoteOff
                /\ hist[1].msg.key = k
                /\ hist[1].wrote

\* C1, witness: a key was pressed and released one tick later, and both buckets
\* are retained
C1_Witness ==
    \E k \in HoldKeys :
        /\ PressedThenReleased(k)
        /\ Cardinality(DOMAIN holds.buf) >= 2

\* the n largest elements of a set of ticks
RECURSIVE Largest(_, _)
Largest(S, n) ==
    IF n = 0 \/ S = {} THEN {} ELSE {SetMax(S)} \cup Largest(S \ {SetMax(S)}, n - 1)

\* C2: for any max_bucket_count the projection never holds more than
\* max_bucket_count buckets, and once buckets have been inserted at more than
\* max_bucket_count distinct ticks it holds exactly max_bucket_count buckets, those
\* of the most recent ticks.
C2_BoundedRetention ==
    /\ Cardinality(DOMAIN holds.buf) <= holds.max_bucket_count
    /\ Cardinality(inserted) > holds.max_bucket_count =>
           DOMAIN holds.buf = Largest(inserted, holds.max_bucket_count)

\* C2 restricted to max_bucket_count >= 1
C2_BoundedRetentionFromOne ==
    holds.max_bucket_count >= 1 => C2_BoundedRetention

\* a bucket has an entry that is not EMPTY
HasHold(bucket) == \E i \in 1..Len(bucket) : bucket[i].status # EMPTY

\* C14 as stated: every retained bucket contains at least one entry whose status
\* is not Empty.
C14_SparseRetention ==
    \A t \in DOMAIN holds.buf : HasHold(holds.buf[t])

\* C14, amended: the bucket an update writes has an Empty entry only for the key
\* of that update, a NoteOff; the bucket a NoteOn writes ends with the Press of
\* its key; so a bucket without an entry that is not Empty is written by a
\* NoteOff only, and it is retained like any other.
C14_EmptyOnlyOnRelease ==
    (panic = "none" /\ hist # <<>> /\ hist[1].wrote) =>
        LET bucket == NewestBucket(holds.buf)
            msg == hist[1].msg
        IN  /\ msg.message_type = NoteOn =>
                   /\ bucket # <<>>
                   /\ bucket[Len(bucket)] = KeyStatus(msg.key, PRESS)
            /\ \A i \in 1..Len(bucket) :
                   bucket[i].status = EMPTY =>
                       /\ msg.message_type = NoteOff
                       /\ bucket[i].key = msg.key
            /\ ~HasHold(bucket) => msg.message_type = NoteOff

\* C14, witness: two buckets without a hold are retained, one with an Empty entry
\* only and after it one with no entry
C14_Witness ==
    /\ panic = "none"
    /\ hist # <<>>
    /\ hist[1].wrote
    /\ NewestBucket(holds.buf) = <<>>
    /\ \E t \in DOMAIN holds.buf :
           /\ holds.buf[t] # <<>>
           /\ ~HasHold(holds.buf[t])

----------------------------------------------------------------------------
(* SpecDb: a KeyDb shared between the thread that writes it and a reader *)

\* RwLock: write() and try_write() succeed when nobody holds the lock, read() when
\* no writer holds it
CanWrite(l) == ~l.writer /\ l.readers = {}
CanRead(l) == ~l.writer

\* the events the writer pushes: the press and the release of one key
DbMessages == {KeyMessage(0, ty, 60) : ty \in MidiMessageTypes}

InitDb ==
    /\ DbIdle
    /\ RestIdle
    /\ TIMER = 0
    /\ \E c \in 0..MaxBuckets : holds = HoldData_new(c)
    /\ panic = "none"
    /\ hist = <<>>
    /\ inserted = {}

\* the ticker thread of start_timer: update_time()
DbTick ==
    /\ TIMER < MaxTicks * INCREMENT
    /\ TIMER' = update_time_value(TIMER)
    /\ UNCHANGED <<holds, panic, hist, inserted, dbVars>>
    /\ UNCHANGED restVars

\* push_msg(msg), line 154: linear_buf.write() is granted
PushLockLog(msg) ==
    /\ pc["w"] = "idle"
    /\ Len(linear_buf) < MaxLog
    /\ CanWrite(lock.log)
    /\ lock' = [lock EXCEPT !.log.writer = TRUE]
    /\ w_msg' = msg
    /\ pc' = [pc EXCEPT !["w"] = "push_log"]
    /\ cleared' = <<>>
    /\ UNCHANGED <<holdVars, linear_buf, w_done, applied, view>>
    /\ UNCHANGED otherVars

\* PushLog with the write guard of the log kept beyond its statement
PushLog_KeepGuard ==
    /\ pc["w"] = "push_log"
    /\ linear_buf' = Append(linear_buf, w_msg)
    /\ pc' = [pc EXCEPT !["w"] = "push_try"]
    /\ UNCHANGED <<holdVars, lock, w_msg, w_done, applied, view>>
    /\ UNCHANGED restVars

\* push_msg, line 154: push(msg), and the guard is dropped at the end of the statement
PushLog ==
    /\ pc["w"] = "push_log"
    /\ linear_buf' = Append(linear_buf, w_msg)
    /\ lock' = [lock EXCEPT !.log.writer = FALSE]
    /\ pc' = [pc EXCEPT !["w"] = "push_try"]
    /\ UNCHANGED <<holdVars, w_msg, w_done, applied, view>>
    /\ UNCHANGED restVars

\* push_msg, line 155: holds.try_write().unwrap(): the lock when it is free, a
\* panic of the writer when anybody holds it (or it is poisoned)
PushTryWrite ==
    /\ pc["w"] = "push_try"
    /\ IF CanWrite(lock.holds) /\ ~lock.holds.poisoned
       THEN /\ lock' = [lock EXCEPT !.holds.writer = TRUE]
            /\ pc' = [pc EXCEPT !["w"] = "push_update"]
            /\ UNCHANGED panic
       ELSE /\ pc' = [pc EXCEPT !["w"] = "panicked"]
            /\ panic' = "try_write_unwrap"
            /\ UNCHANGED lock
    /\ UNCHANGED <<TIMER, holds, hist, inserted, linear_buf, w_msg, w_done, applied, view>>
    /\ UNCHANGED restVars

\* PushUpdate without the call of update
PushUpdate_NoUpdate ==
    /\ pc["w"] = "push_update"
    /\ lock' = [lock EXCEPT !.holds.writer = FALSE]
    /\ pc' = [pc EXCEPT !["w"] = "idle"]
    /\ w_done' = "push_msg"
    /\ UNCHANGED <<holdVars, linear_buf, w_msg, applied, view>>
    /\ UNCHANGED restVars

\* push_msg, line 155: update(msg) under the write guard, which is then dropped; a
\* panic inside update poisons the lock
PushUpdate ==
    /\ pc["w"] = "push_update"
    /\ LET r == HoldData_update(holds, w_msg, get_time)
       IN  /\ holds' = r.hd
           /\ panic' = IF r.panicked THEN "unwrap_none" ELSE panic
           /\ applied' = IF r.panicked THEN applied ELSE Append(applied, w_msg)
           /\ lock' = [lock EXCEPT !.holds.writer = FALSE, !.holds.poisoned = r.panicked]
           /\ pc' = [pc EXCEPT !["w"] = IF r.panicked THEN "panicked" ELSE "idle"]
           /\ w_done' = IF r.panicked THEN w_done ELSE "push_msg"
    /\ UNCHANGED <<TIMER, hist, inserted, linear_buf, w_msg, view>>
    /\ UNCHANGED restVars

\* clear(), line 159: linear_buf.write() is granted
ClearLockLog ==
    /\ pc["w"] = "idle"
    /\ CanWrite(lock.log)
    /\ lock' = [lock EXCEPT !.log.writer = TRUE]
    /\ pc' = [pc EXCEPT !["w"] = "clear_log"]
    /\ UNCHANGED <<holdVars, linear_buf, w_msg, w_done, applied, view>>
    /\ UNCHANGED restVars

\* clear, line 159: Vec::clear, and the guard is dropped
ClearLog ==
    /\ pc["w"] = "clear_log"
    /\ linear_buf' = <<>>
    /\ lock' = [lock EXCEPT !.log.writer = FALSE]
    /\ pc' = [pc EXCEPT !["w"] = "clear_wait"]
    /\ UNCHANGED <<holdVars, w_msg, w_done, applied, view>>
    /\ UNCHANGED restVars

\* clear, line 160: holds.write() is granted (it waits while anybody holds the lock)
ClearLockHolds ==
    /\ pc["w"] = "clear_wait"
    /\ CanWrite(lock.holds)
    /\ IF lock.holds.poisoned
       THEN /\ pc' = [pc EXCEPT !["w"] = "panicked"]
            /\ panic' = "write_unwrap"
            /\ UNCHANGED lock
       ELSE /\ lock' = [lock EXCEPT !.holds.writer = TRUE]
            /\ pc' = [pc EXCEPT !["w"] = "clear_holds"]
            /\ UNCHANGED panic
    /\ UNCHANGED <<TIMER, holds, hist, inserted, linear_buf, w_msg, w_done, applied, view>>
    /\ UNCHANGED restVars

\* clear, line 160: HoldData::clear under the write guard, which is then dropped
ClearHolds ==
    /\ pc["w"] = "clear_holds"
    /\ holds' = HoldData_clear(holds)
    /\ applied' = <<>>
    /\ lock' = [lock EXCEPT !.holds.writer = FALSE]
    /\ pc' = [pc EXCEPT !["w"] = "idle"]
    /\ w_done' = "clear"
    /\ cleared' = LastTwo(Append(cleared, [log |-> linear_buf,
                                           holds |-> HoldData_clear(holds)]))
    /\ UNCHANGED <<TIMER, panic, hist, inserted, linear_buf, w_msg, view>>
    /\ UNCHANGED otherVars

\* ReadLockLog that does not wait for the writer of the log
ReadLockLog_NoWait ==
    /\ pc["r"] = "idle"
    /\ lock' = [lock EXCEPT !.log.readers = @ \cup {"r"}]
    /\ pc' = [pc EXCEPT !["r"] = "read_log"]
    /\ UNCHANGED <<holdVars, linear_buf, w_msg, w_done, applied, view>>
    /\ UNCHANGED restVars

\* flat_message_log(): linear_buf.read() is granted
ReadLockLog ==
    /\ pc["r"] = "idle"
    /\ CanRead(lock.log)
    /\ lock' = [lock EXCEPT !.log.readers = @ \cup {"r"}]
    /\ pc' = [pc EXCEPT !["r"] = "read_log"]
    /\ UNCHANGED <<holdVars, linear_buf, w_msg, w_done, applied, view>>
    /\ UNCHANGED restVars

\* flat_message_log: to_vec() under the read guard, which is then dropped
ReadLog ==
    /\ pc["r"] = "read_log"
    /\ view' = [of |-> "log", value |-> linear_buf]
    /\ lock' = [lock EXCEPT !.log.readers = @ \ {"r"}]
    /\ pc' = [pc EXCEPT !["r"] = "idle"]
    /\ UNCHANGED <<holdVars, linear_buf, w_msg, w_done, applied>>
    /\ UNCHANGED restVars

\* get_hold_data() or print_holds(): holds.read().unwrap() is granted, or panics
\* on a poisoned lock
ReadLockHolds(call) ==
    /\ pc["r"] = "idle"
    /\ CanRead(lock.holds)
    /\ IF lock.holds.poisoned
       THEN /\ pc' = [pc EXCEPT !["r"] = "panicked"]
            /\ UNCHANGED lock
       ELSE /\ lock' = [lock EXCEPT !.holds.readers = @ \cup {"r"}]
            /\ pc' = [pc EXCEPT !["r"] = call]
    /\ UNCHANGED <<holdVars, linear_buf, w_msg, w_done, applied, view>>
    /\ UNCHANGED restVars

\* get_hold_data: raw_buf() clones the map under the read guard, which is then dropped
GetHoldData ==
    /\ pc["r"] = "get_hold_data"
    /\ view' = [of |-> "holds", value |-> holds.buf]
    /\ lock' = [lock EXCEPT !.holds.readers = @ \ {"r"}]
    /\ pc' = [pc EXCEPT !["r"] = "idle"]
    /\ UNCHANGED <<holdVars, linear_buf, w_msg, w_done, applied>>
    /\ UNCHANGED restVars

\* print_holds: print() under the read guard, which is then dropped
PrintHolds ==
    /\ pc["r"] = "print_holds"
    /\ lock' = [lock EXCEPT !.holds.readers = @ \ {"r"}]
    /\ pc' = [pc EXCEPT !["r"] = "idle"]
    /\ UNCHANGED <<holdVars, linear_buf, w_msg, w_done, applied, view>>
    /\ UNCHANGED restVars

NextDb ==
    \/ DbTick
    \/ \E msg \in DbMessages : PushLockLog(msg)
    \/ PushLog
    \/ PushTryWrite
    \/ PushUpdate
    \/ ClearLockLog
    \/ ClearLog
    \/ ClearLockHolds
    \/ ClearHolds
    \/ ReadLockLog
    \/ ReadLog
    \/ \E call \in {"get_hold_data", "print_holds"} : ReadLockHolds(call)
    \/ GetHoldData
    \/ PrintHolds

SpecDb == InitDb /\ [][NextDb]_vars

----------------------------------------------------------------------------
(* Claims about KeyDb, under SpecDb *)

\* a reader can take either lock: no writer holds one
ReadersCanRead == CanRead(lock.log) /\ CanRead(lock.holds)

InPush == pc["w"] \in {"push_log", "push_try", "push_update"}
InClear == pc["w"] \in {"clear_log", "clear_wait", "clear_holds"}

\* C3 as stated: push_msg is one atomic step: in no state a reader can read, while
\* a push_msg is in progress, does the log contain an event the projection has
\* not been updated with.
C3_AtomicAccept ==
    (InPush /\ ReadersCanRead) => applied = linear_buf

\* C3, amended: push_msg appends the event to the log under the log's lock and
\* then, as a second step, updates the projection under the projection's lock;
\* between the two the log holds exactly one event more than the projection has
\* been updated with (the event of the call), never the reverse, and outside a call
\* (and before the first step) log and projection agree.
C3_LogThenProjection ==
    /\ pc["w"] \in {"idle", "push_log"} => applied = linear_buf
    /\ pc["w"] \in {"push_try", "push_update"} => linear_buf = Append(applied, w_msg)

\* C3, witness: the writer is between the two steps of push_msg, the reader has
\* read the log holding the event and is now reading the projection, which has
\* not been updated with it
C3_Witness ==
    /\ pc["w"] = "push_try"
    /\ view = [of |-> "log", value |-> linear_buf]
    /\ pc["r"] = "get_hold_data"
    /\ linear_buf = Append(applied, w_msg)

\* C4 as stated: clear is atomic: in no state a reader can read, while a clear is
\* in progress, is the log empty and the projection not (or the reverse).
C4_AtomicClear ==
    (InClear /\ ReadersCanRead) => ((linear_buf = <<>>) <=> (holds.buf = EmptyMap))

\* C4, amended: clear empties the log under the log's lock and then, as a second
\* step, the projection under the projection's lock: until the log is emptied
\* the projection is untouched, between the two steps the log is empty (while the
\* projection may not be), and when clear has returned both are empty.
C4_LogThenProjectionCleared ==
    /\ pc["w"] = "clear_log" => applied = linear_buf
    /\ pc["w"] \in {"clear_wait", "clear_holds"} => linear_buf = <<>>
    /\ (pc["w"] = "idle" /\ w_done = "clear") =>
           /\ linear_buf = <<>>
           /\ holds.buf = EmptyMap

\* C4, witness: the writer is between the two steps of clear: a reader that has
\* read the empty log is reading the projection, which still holds its buckets
C4_Witness ==
    /\ pc["w"] = "clear_wait"
    /\ view = [of |-> "log", value |-> <<>>]
    /\ pc["r"] = "get_hold_data"
    /\ applied # <<>>
    /\ holds.buf # EmptyMap

\* C5: when try_write fails in push_msg because the projection's lock is held,
\* the store is left consistent: the log does not hold an event the projection
\* was not updated with.
C5_ContendedPushConsistent ==
    panic = "try_write_unwrap" => applied = linear_buf

\* C5: the failure case is reached: the reader holds the projection's lock when
\* the writer tries it
C5_Contended ==
    /\ panic = "try_write_unwrap"
    /\ lock.holds.readers # {}

----------------------------------------------------------------------------
(* midi.rs: note names *)

\* note_name: the index into keys = [A, Bb, B, C, C#, D, Eb, E, F, F#, G, Ab]
NOTE_SEQ_OFFSET == 3
NoteNames == <<"A", "Bb", "B", "C", "C#", "D", "Eb", "E", "F", "F#", "G", "Ab">>
note_name(key) == NoteNames[((key + NOTE_SEQ_OFFSET) % Len(NoteNames)) + 1]

----------------------------------------------------------------------------
(* lib.rs / main.rs: the pattern matchers of the run-end listeners.  main.rs  *)
(* names the message types KeyDown and KeyUp; they are NoteOn and NoteOff.    *)

major_scale_deltas == <<2, 2, 1, 2, 2, 2, 1>>
harmonic_minor_scale_deltas == <<2, 1, 2, 2, 1, 3, 1>>

\* the result of a matcher: its boolean, or the panic of an index out of range
Returns(b) == [value |-> b, panicked |-> FALSE]
Panics == [value |-> FALSE, panicked |-> TRUE]

\* the while loop of scale_matches_increments from pair pair_based_index on
\* (indices are 0-based in the code, 1-based here); (pair_based_index % 8) - 1 is
\* an index below 0 when pair_based_index is a positive multiple of 8
RECURSIVE ScalePairs(_, _, _, _)
ScalePairs(key_events, proper_deltas, pair_based_index, base_note) ==
    IF pair_based_index < Len(key_events) \div 2
    THEN LET e1 == key_events[pair_based_index * 2 + 1]
             e2 == key_events[pair_based_index * 2 + 2]
         IN  IF e1.message_type # NoteOn \/ e2.message_type # NoteOff
             THEN Returns(FALSE)
             ELSE IF e1.key # e2.key
             THEN Returns(FALSE)
             ELSE IF pair_based_index > 0 /\ e1.key <= base_note
             THEN Returns(FALSE)
             ELSE IF pair_based_index > 0 /\ (pair_based_index % 8) - 1 < 0
             THEN Panics
             ELSE IF /\ pair_based_index > 0
                     /\ e1.key - base_note # proper_deltas[(pair_based_index % 8) - 1 + 1]
             THEN Returns(FALSE)
             ELSE ScalePairs(key_events, proper_deltas, pair_based_index + 1, e1.key)
    ELSE Returns(TRUE)

\* scale_matches_increments that does not compare the keys of a pair
scale_matches_increments_DownsOnly(key_events, proper_deltas) ==
    IF Len(key_events) < 16 \/ Len(key_events) % 16 # 0
    THEN Returns(FALSE)
    ELSE Returns(/\ \A i \in 0..((Len(key_events) \div 2) - 1) :
                        /\ key_events[2 * i + 1].message_type = NoteOn
                        /\ key_events[2 * i + 2].message_type = NoteOff
                 /\ \A i \in 1..((Len(key_events) \div 2) - 1) :
                        key_events[2 * i + 1].key - key_events[2 * i - 1].key
                            = proper_deltas[((i - 1) % 7) + 1])

scale_matches_increments(key_events, proper_deltas) ==
    IF Len(key_events) < 16 \/ Len(key_events) % 16 # 0
    THEN Returns(FALSE)
    ELSE ScalePairs(key_events, proper_deltas, 0, key_events[1].key)

timestamp_threshold == 30000

\* is_minor_maj_7_chord: the reference chord, C Eb G B
major_minor_chord_c == {"C", "Eb", "G", "B"}

\* the inner while loop: the end (exclusive, 0-based) of the run that starts at
\* start_run_index; the timestamps are u64 and those of a log do not decrease (a
\* wrapped difference is not below the threshold)
RECURSIVE RunEnd(_, _, _)
RunEnd(key_downs, start_run_index, end_run_idx) ==
    IF /\ end_run_idx < Len(key_downs)
       /\ key_downs[end_run_idx + 1].timestamp >= key_downs[start_run_index + 1].timestamp
       /\ key_downs[end_run_idx + 1].timestamp - key_downs[start_run_index + 1].timestamp
              < timestamp_threshold
    THEN RunEnd(key_downs, start_run_index, end_run_idx + 1)
    ELSE end_run_idx

\* the sorted note names of a run equal the sorted reference: the run has each
\* note of the reference once and nothing else
RunIsChord(key_downs, start_run_index, end_run_idx) ==
    /\ end_run_idx - start_run_index = Cardinality(major_minor_chord_c)
    /\ {note_name(key_downs[i + 1].key) : i \in start_run_index..(end_run_idx - 1)}
           = major_minor_chord_c

\* is_minor_maj_7_chord without the test of the length of the log
is_minor_maj_7_chord_AnyLength(buf) ==
    LET key_downs == SelectSeq(buf, LAMBDA m : m.message_type = NoteOn)
    IN  /\ Len(key_downs) >= 4
        /\ \E start_run_index \in 0..(Len(key_downs) - 1) :
               RunIsChord(key_downs, start_run_index,
                          RunEnd(key_downs, start_run_index, start_run_index + 1))

is_minor_maj_7_chord(buf) ==
    IF Len(buf) < 8
    THEN FALSE
    ELSE LET key_downs == SelectSeq(buf, LAMBDA m : m.message_type = NoteOn)
         IN  /\ Len(key_downs) >= 4
             /\ \E start_run_index \in 0..(Len(key_downs) - 1) :
                    RunIsChord(key_downs, start_run_index,
                               RunEnd(key_downs, start_run_index, start_run_index + 1))

\* AscendingScaleNotifier::on_keypress
AscendingScaleNotifier(buf) ==
    LET major == scale_matches_increments(buf, major_scale_deltas)
        minor == scale_matches_increments(buf, harmonic_minor_scale_deltas)
    IN  IF major.panicked THEN Panics
        ELSE IF major.value THEN Returns(TRUE)
        ELSE minor

\* MinorMajor7ChordListener::on_keypress
MinorMajor7ChordListener(buf) == Returns(is_minor_maj_7_chord(buf))

----------------------------------------------------------------------------
(* key_handler.rs: the log query *)

always_true(k) == TRUE
is_note_off(k) == k.message_type = NoteOff
is_note_on(k) == k.message_type = NoteOn

Reverse(seq) == [i \in 1..Len(seq) |-> seq[Len(seq) + 1 - i]]
Take(seq, n) == SubSeq(seq, 1, IF n < Len(seq) THEN n ELSE Len(seq))

\* the custom_filter of a query: None, or the closure that last_n_key_ups_reversed
\* or last_n_key_downs_reversed passes
Filters == {"None", "key_ups", "key_downs"}

\* custom_filter.unwrap_or(always_true) applied to k
Matches(custom_filter, k) ==
    CASE custom_filter = "None" -> always_true(k)
      [] custom_filter = "key_ups" -> is_note_off(k)
      [] custom_filter = "key_downs" -> is_note_on(k)

\* the query returning the oldest matches first
last_n_messages_chron(log, n, custom_filter) ==
    Take(SelectSeq(log, LAMBDA k : Matches(custom_filter, k)), n)

\* last_n_messages_reverse_chron: iter().rev().filter(f).take(n).collect()
last_n_messages_reverse_chron(log, n, custom_filter) ==
    Take(SelectSeq(Reverse(log), LAMBDA k : Matches(custom_filter, k)), n)

last_n_key_ups_reversed(log, n) == last_n_messages_reverse_chron(log, n, "key_ups")
last_n_key_downs_reversed(log, n) == last_n_messages_reverse_chron(log, n, "key_downs")

----------------------------------------------------------------------------
(* main.rs: KeyBuffer and its dispatch loop *)

HEARTBEATS_PER_AUTO_NEW_RUN == 100

\* sync_channel(1), for both channels
ChannelBound == 1

Heartbeat == "Heartbeat"
NewRun == "NewRun"
\* ControlMessage::Print (the name Print is taken by the TLC module)
PrintRun == "Print"

Max(a, b) == IF a >= b THEN a ELSE b

\* the result of a handler of KeyBuffer: the KeyBuffer it leaves, whether it ended
\* the run, whether it panicked
Handled(b, ended, panicked) == [kb |-> b, ended |-> ended, panicked |-> panicked]

\* end_run that leaves heartbeat_count as it is
end_run_KeepCount(b) == [b EXCEPT !.buf = <<>>]

\* end_run: buf.clear(), heartbeat_count = 0 (print() finds an empty buf)
end_run(b) == [b EXCEPT !.buf = <<>>, !.heartbeat_count = 0]

\* call_listeners with the scale notifier as the only listener
call_listeners_ScaleOnly(b) ==
    LET scale == AscendingScaleNotifier(b.buf)
    IN  IF scale.panicked THEN Handled(b, FALSE, TRUE)
        ELSE IF scale.value THEN Handled(end_run(b), TRUE, FALSE)
        ELSE Handled(b, FALSE, FALSE)

\* call_listeners that does not end the run
call_listeners_NoEnd(b) ==
    Handled(b, FALSE, AscendingScaleNotifier(b.buf).panicked)

\* call_listeners: the scale notifier, then the chord listener unless hit_end is
\* already true; end_run() if one of them returned true
call_listeners(b) ==
    LET scale == AscendingScaleNotifier(b.buf)
        hit_end == scale.value \/ MinorMajor7ChordListener(b.buf).value
    IN  IF scale.panicked THEN Handled(b, FALSE, TRUE)
        ELSE IF hit_end THEN Handled(end_run(b), TRUE, FALSE)
        ELSE Handled(b, FALSE, FALSE)

\* accept that also restarts heartbeat_count
accept_RestartCount(b, message) ==
    call_listeners([b EXCEPT !.buf = Append(@, message),
                             !.most_recent_insert = Max(message.timestamp, @),
                             !.heartbeat_count = 0])

\* accept: push, most_recent_insert, call_listeners
accept(b, message) ==
    call_listeners([b EXCEPT !.buf = Append(@, message),
                             !.most_recent_insert = Max(message.timestamp, @)])

\* heartbeat that ends the run once heartbeat_count reaches the threshold
heartbeat_AtThreshold(b) ==
    LET ended == b.heartbeat_count >= HEARTBEATS_PER_AUTO_NEW_RUN
        r == IF ended THEN end_run(b) ELSE b
    IN  Handled([r EXCEPT !.heartbeat_count = @ + 1], ended, FALSE)

\* heartbeat: end_run() if heartbeat_count > HEARTBEATS_PER_AUTO_NEW_RUN, then
\* heartbeat_count += 1
heartbeat(b) ==
    LET ended == b.heartbeat_count > HEARTBEATS_PER_AUTO_NEW_RUN
        r == IF ended THEN end_run(b) ELSE b
    IN  Handled([r EXCEPT !.heartbeat_count = @ + 1], ended, FALSE)

\* handle_control_message
handle_control_message(b, msg) ==
    CASE msg = Heartbeat -> heartbeat(b)
      [] msg = NewRun -> Handled(end_run(b), TRUE, FALSE)
      [] msg = PrintRun -> Handled(b, FALSE, FALSE)

\* The KeyBuffer of main.rs keeps the log only; the code that keeps the hold
\* projection of KeyDb along with it is not in the sources.  The projection
\* follows the dispatch loop as the specification describes it: an accepted event
\* updates it, the end of a run clears it.
ProjectionOnAccept(hd, message, ended) ==
    IF ended THEN HoldData_clear(hd) ELSE HoldData_update(hd, message, get_time).hd

ProjectionOnControl(hd, ended) == IF ended THEN HoldData_clear(hd) ELSE hd

----------------------------------------------------------------------------
(* SpecLoop: the loop thread, the device callback, the heartbeat thread and the *)
(* stdin loop of run()                                                          *)

\* the key of the note i (from 0) of the scale of deltas that starts at key base
RECURSIVE ScaleKey(_, _, _)
ScaleKey(base, deltas, i) ==
    IF i = 0 THEN base ELSE ScaleKey(base, deltas, i - 1) + deltas[i]

\* the scale played from key base: each of its 8 notes pressed and released
PlayedScale(base, deltas) ==
    [j \in 1..16 |-> KeyMessage(j * 100,
                                IF j % 2 = 1 THEN NoteOn ELSE NoteOff,
                                ScaleKey(base, deltas, (j - 1) \div 2))]

\* the key of the note i (from 0) of the scale that repeats deltas octave after octave
RECURSIVE OctaveKey(_, _, _)
OctaveKey(base, deltas, i) ==
    IF i = 0 THEN base
    ELSE OctaveKey(base, deltas, i - 1) + deltas[((i - 1) % Len(deltas)) + 1]

\* the scale played upwards from key base, 16 notes pressed and released: two
\* octaves and a note
TwoOctaves(base, deltas) ==
    [j \in 1..32 |-> KeyMessage(j * 100,
                                IF j % 2 = 1 THEN NoteOn ELSE NoteOff,
                                OctaveKey(base, deltas, (j - 1) \div 2))]

\* what the device plays: the chord C Eb G B, pressed within the time window and
\* released; and two notes played apart from each other
ChordSong ==
    <<KeyMessage(0, NoteOn, 60), KeyMessage(10, NoteOn, 63),
      KeyMessage(20, NoteOn, 67), KeyMessage(30, NoteOn, 71),
      KeyMessage(40, NoteOff, 60), KeyMessage(50, NoteOff, 63),
      KeyMessage(60, NoteOff, 67), KeyMessage(70, NoteOff, 71)>>
TwoNotes ==
    <<KeyMessage(0, NoteOn, 60), KeyMessage(40000, NoteOff, 60),
      KeyMessage(80000, NoteOn, 62), KeyMessage(120000, NoteOff, 62)>>
\* the major scale from C4 to C5, each note pressed and released, and one more
\* note after it
ScaleSong ==
    PlayedScale(60, major_scale_deltas)
        \o <<KeyMessage(1700, NoteOn, 60), KeyMessage(1800, NoteOff, 60)>>
\* one note a whole step below C4, and then the major scale upwards from C4 for
\* two octaves and a note
LongScaleSong ==
    <<KeyMessage(10, NoteOn, 58), KeyMessage(20, NoteOff, 58)>>
        \o TwoOctaves(60, major_scale_deltas)

\* the major scale from C4 up to C5 and down again, 15 notes pressed and released
UpDownKeys == <<60, 62, 64, 65, 67, 69, 71, 72, 71, 69, 67, 65, 64, 62, 60>>
UpDownSong ==
    [j \in 1..30 |-> KeyMessage(j * 100,
                                IF j % 2 = 1 THEN NoteOn ELSE NoteOff,
                                UpDownKeys[(j + 1) \div 2])]

Songs == <<ChordSong, TwoNotes, ScaleSong, LongScaleSong, UpDownSong>>

\* the songs of SpecLoop, and those of SpecListeners
LoopSongs == {1, 2}
ListenerSongs == {1, 3}

\* run() has set up the channels and the KeyBuffer; the device plays the song sg
LoopStarts(sg) ==
    /\ DbIdle
    /\ QueryIdle
    /\ ScaleIdle
    /\ ClockIdle
    /\ TIMER = 0
    /\ holds = HoldData_new(MaxBuckets)
    /\ panic = "none"
    /\ hist = <<>>
    /\ inserted = {}
    /\ kb = KeyBuffer_new
    /\ playback_chan = <<>>
    /\ control_chan = <<>>
    /\ loop_pc = "playback"
    /\ song = sg
    /\ n_sent = 0
    /\ accepted = <<>>
    /\ last = Step("none", 0, FALSE, 0)
    /\ hb_since_reset = 0
    /\ evt_late = FALSE
    /\ run_start = 0

InitLoop == \E sg \in LoopSongs : LoopStarts(sg)

InitListeners == \E sg \in ListenerSongs : LoopStarts(sg)

LoopOthers == <<TIMER, panic, hist, inserted, dbVars, queryVars, scaleVars, clockVars, cleared>>

\* the device callback with a full channel puts its event in the place of the
\* one that waits
DeviceSend_Overwrite ==
    /\ n_sent < Len(Songs[song])
    /\ playback_chan' = IF Len(playback_chan) < ChannelBound
                        THEN Append(playback_chan, Songs[song][n_sent + 1])
                        ELSE <<Songs[song][n_sent + 1]>>
    /\ n_sent' = n_sent + 1
    /\ UNCHANGED <<kb, holds, control_chan, loop_pc, song, accepted, last,
                   hb_since_reset, evt_late, run_start>>
    /\ UNCHANGED LoopOthers

\* the device callback: playback_sender.send(parsed_message) returns when the
\* channel has room; once the loop thread has panicked the receiver is gone and
\* send returns an error that the callback ignores
DeviceSend ==
    /\ n_sent < Len(Songs[song])
    /\ IF loop_pc = "panicked"
       THEN UNCHANGED playback_chan
       ELSE /\ Len(playback_chan) < ChannelBound
            /\ playback_chan' = Append(playback_chan, Songs[song][n_sent + 1])
    /\ n_sent' = n_sent + 1
    /\ UNCHANGED <<kb, holds, control_chan, loop_pc, song, accepted, last,
                   hb_since_reset, evt_late, run_start>>
    /\ UNCHANGED LoopOthers

\* a sender of the control channel: send returns when the channel has room
ControlSend(msg) ==
    /\ loop_pc # "panicked"
    /\ Len(control_chan) < ChannelBound
    /\ control_chan' = Append(control_chan, msg)
    /\ UNCHANGED <<kb, holds, playback_chan, loop_pc, song, n_sent, accepted, last,
                   hb_since_reset, evt_late, run_start>>
    /\ UNCHANGED LoopOthers

\* the heartbeat thread: control_sender.send(Heartbeat)
HeartbeatSend == ControlSend(Heartbeat)

\* the stdin loop: control_sender_fg.send(ControlMessage::Print), control_sender_fg.send(NewRun)
StdinSend(msg) == ControlSend(msg)

\* LoopPlayback that receives from the event channel again after an event, and
\* turns to the control channel only after a timeout
LoopPlayback_Drain ==
    /\ loop_pc = "playback"
    /\ IF playback_chan = <<>>
       THEN /\ last' = Step("playback_timeout", hb_since_reset, evt_late, Len(kb.buf))
            /\ loop_pc' = "control"
            /\ UNCHANGED <<kb, holds, playback_chan, accepted, hb_since_reset, evt_late,
                           run_start>>
       ELSE LET message == Head(playback_chan)
                r == accept(kb, message)
            IN  /\ playback_chan' = Tail(playback_chan)
                /\ accepted' = Append(accepted, message)
                /\ kb' = r.kb
                /\ holds' = ProjectionOnAccept(holds, message, r.ended)
                /\ loop_pc' = IF r.panicked THEN "panicked" ELSE "playback"
                /\ last' = Step(IF r.panicked THEN "panic"
                                ELSE IF r.ended THEN "accept_end_run" ELSE "accept",
                                hb_since_reset, evt_late, Len(kb.buf))
                /\ hb_since_reset' = IF r.ended THEN 0 ELSE hb_since_reset
                /\ evt_late' = IF r.ended THEN FALSE ELSE evt_late \/ hb_since_reset > 1
                /\ run_start' = IF r.ended THEN Len(accepted) + 1 ELSE run_start
    /\ UNCHANGED <<control_chan, song, n_sent>>
    /\ UNCHANGED LoopOthers

\* the loop thread: playback_receiver.recv_timeout, accept(message) on Ok
LoopPlayback ==
    /\ loop_pc = "playback"
    /\ IF playback_chan = <<>>
       THEN /\ last' = Step("playback_timeout", hb_since_reset, evt_late, Len(kb.buf))
            /\ loop_pc' = "control"
            /\ UNCHANGED <<kb, holds, playback_chan, accepted, hb_since_reset, evt_late,
                           run_start>>
       ELSE LET message == Head(playback_chan)
                r == accept(kb, message)
            IN  /\ playback_chan' = Tail(playback_chan)
                /\ accepted' = Append(accepted, message)
                /\ kb' = r.kb
                /\ holds' = ProjectionOnAccept(holds, message, r.ended)
                /\ loop_pc' = IF r.panicked THEN "panicked" ELSE "control"
                /\ last' = Step(IF r.panicked THEN "panic"
                                ELSE IF r.ended THEN "accept_end_run" ELSE "accept",
                                hb_since_reset, evt_late, Len(kb.buf))
                /\ hb_since_reset' = IF r.ended THEN 0 ELSE hb_since_reset
                /\ evt_late' = IF r.ended THEN FALSE ELSE evt_late \/ hb_since_reset > 1
                /\ run_start' = IF r.ended THEN Len(accepted) + 1 ELSE run_start
    /\ UNCHANGED <<control_chan, song, n_sent>>
    /\ UNCHANGED LoopOthers

\* the loop thread: control_receiver.recv_timeout, handle_control_message on Ok
LoopControl ==
    /\ loop_pc = "control"
    /\ IF control_chan = <<>>
       THEN /\ last' = Step("control_timeout", hb_since_reset, evt_late, Len(kb.buf))
            /\ UNCHANGED <<kb, holds, control_chan, hb_since_reset, evt_late, run_start>>
       ELSE LET msg == Head(control_chan)
                r == handle_control_message(kb, msg)
            IN  /\ control_chan' = Tail(control_chan)
                /\ kb' = r.kb
                /\ holds' = ProjectionOnControl(holds, r.ended)
                /\ last' = Step(IF msg = Heartbeat /\ r.ended THEN "auto_new_run" ELSE msg,
                                hb_since_reset, evt_late, Len(kb.buf))
                /\ hb_since_reset' = (IF r.ended THEN 0 ELSE hb_since_reset)
                                     + (IF msg = Heartbeat THEN 1 ELSE 0)
                /\ evt_late' = IF r.ended THEN FALSE ELSE evt_late
                /\ run_start' = IF r.ended THEN Len(accepted) ELSE run_start
    /\ loop_pc' = "playback"
    /\ UNCHANGED <<playback_chan, song, n_sent, accepted>>
    /\ UNCHANGED LoopOthers

NextLoop ==
    \/ DeviceSend
    \/ HeartbeatSend
    \/ \E msg \in {PrintRun, NewRun} : StdinSend(msg)
    \/ LoopPlayback
    \/ LoopControl

SpecLoop == InitLoop /\ [][NextLoop]_vars

\* the loop while nothing is typed on stdin
NextListeners ==
    \/ DeviceSend
    \/ HeartbeatSend
    \/ LoopPlayback
    \/ LoopControl

SpecListeners == InitListeners /\ [][NextListeners]_vars

\* the loop thread keeps running: each recv_timeout returns, with a message or
\* after its timeout
SpecLoopFair == SpecLoop /\ WF_vars(LoopPlayback) /\ WF_vars(LoopControl)

\* the loop thread keeps running while the device plays the two notes
InitTurns == LoopStarts(2)

SpecTurnsFair ==
    InitTurns /\ [][NextLoop]_vars /\ WF_vars(LoopPlayback) /\ WF_vars(LoopControl)

----------------------------------------------------------------------------
(* Claims about the dispatch loop, under SpecLoop and SpecLoopFair *)

C7_AutoResetOnlyWhenIdle ==
    last.step = "auto_new_run" => ~last.late

\* C7, amended: a heartbeat resets the run only when more than 100 heartbeats have
\* been handled since the run was last reset, and the counter is the number of
\* heartbeats handled since that reset whatever events were accepted since.
C7_AutoResetPerHeartbeats ==
    /\ kb.heartbeat_count = hb_since_reset
    /\ last.step = "auto_new_run" => last.hb > HEARTBEATS_PER_AUTO_NEW_RUN

\* C7, witness: a heartbeat has just reset the run although events were accepted
\* between the heartbeats it counted
C7_Witness ==
    /\ last.step = "auto_new_run"
    /\ last.late
    /\ last.len > 0

\* the events the device callback has sent
Sent == SubSeq(Songs[song], 1, n_sent)

\* C8: the events accepted, followed by those in the channel, are the events sent,
\* in send order (none dropped, none twice), the producer waiting while the
\* channel is full; and whenever an event sent is not yet accepted, the loop comes
\* to accept every event sent.
C8_NoEventLoss ==
    /\ [](accepted \o playback_chan = Sent)
    /\ (Len(accepted) < n_sent) ~> (Len(accepted) = n_sent)

\* C8, witness: the device has sent its whole song, the producer having waited for
\* room in the channel, and the loop has accepted all of it between heartbeats
C8_Witness ==
    /\ n_sent = Len(Songs[song])
    /\ accepted = Songs[song]
    /\ hb_since_reset > 0

----------------------------------------------------------------------------
(* SpecQuery: a log that grows by push_msg, queried by last_n_messages_reverse_chron *)

MaxQueryLen == 4        \* the queried log holds at most this many events
MaxQueryN == 5          \* the n of a query is drawn from 0..MaxQueryN

\* the query as its callers make it: directly, or by one of the two wrappers
Query(log, f, n) ==
    CASE f = "None" -> last_n_messages_reverse_chron(log, n, "None")
      [] f = "key_ups" -> last_n_key_ups_reversed(log, n)
      [] f = "key_downs" -> last_n_key_downs_reversed(log, n)

InitQuery ==
    /\ DbIdle
    /\ LoopIdle
    /\ ScaleIdle
    /\ ClockIdle
    /\ TIMER = 0
    /\ holds = HoldData_new(MaxBuckets)
    /\ panic = "none"
    /\ hist = <<>>
    /\ inserted = {}
    /\ q_log = <<>>
    /\ q_call = NoCall

\* push_msg: linear_buf.push(msg); the event's timestamp tells the pushes apart
QueryPush(ty) ==
    /\ Len(q_log) < MaxQueryLen
    /\ q_log' = Append(q_log, KeyMessage(Len(q_log) + 1, ty, 60))
    /\ q_call' = NoCall
    /\ UNCHANGED <<holdVars, dbVars, loopVars, scaleVars, clockVars, cleared>>

\* last_n_messages_reverse_chron(n, custom_filter): reads the log under its read lock
QueryLastN(f, n) ==
    /\ q_call' = [of |-> f, n |-> n, found |-> q_log, result |-> Query(q_log, f, n)]
    /\ UNCHANGED q_log
    /\ UNCHANGED <<holdVars, dbVars, loopVars, scaleVars, clockVars, cleared>>

NextQuery ==
    \/ \E ty \in MidiMessageTypes : QueryPush(ty)
    \/ \E f \in Filters, n \in 0..MaxQueryN : QueryLastN(f, n)

SpecQuery == InitQuery /\ [][NextQuery]_vars

----------------------------------------------------------------------------
(* Claims about the log query, under SpecQuery *)

Min(a, b) == IF a <= b THEN a ELSE b

\* the positions of the log whose event satisfies the filter
MatchingAt(log, f) == {i \in 1..Len(log) : Matches(f, log[i])}

\* position i is among the n last matching positions
AmongLast(log, f, n, i) ==
    /\ i \in MatchingAt(log, f)
    /\ Cardinality({j \in MatchingAt(log, f) : j > i}) < n

\* C9: the query returns exactly the n most recently pushed events that satisfy
\* the predicate, newest first (the always-true predicate and n <= log length: the
\* last n events reversed); all the matches when fewer than n match; and the log
\* is as the query found it.
C9_ReverseOrderQuery ==
    q_call.of # "none" =>
        LET log == q_call.found
            res == q_call.result
            f == q_call.of
            n == q_call.n
        IN  /\ Len(res) = Min(n, Cardinality(MatchingAt(log, f)))
            /\ \A i \in 1..Len(log) :
                   AmongLast(log, f, n, i) <=> \E r \in 1..Len(res) : res[r] = log[i]
            /\ \A r1, r2 \in 1..Len(res) :
                   r1 < r2 => res[r1].timestamp > res[r2].timestamp
            /\ (f = "None" /\ n <= Len(log)) =>
                   res = [r \in 1..n |-> log[Len(log) + 1 - r]]
            /\ q_log = log

\* C9, witness: a query with a filter that some events of the log fail, which has
\* more matches than asked for, and returned several
C9_Witness ==
    /\ q_call.of = "key_ups"
    /\ q_call.n = 2
    /\ Cardinality(MatchingAt(q_call.found, "key_ups")) > 2
    /\ Len(q_call.found) > Cardinality(MatchingAt(q_call.found, "key_ups"))
    /\ Len(q_call.result) = 2

----------------------------------------------------------------------------
(* SpecScale: scale_matches_increments on a played scale that is altered *)

MaxEdits == 2           \* the played scale is altered at most this many times

ScaleDeltas == {major_scale_deltas, harmonic_minor_scale_deltas}

InitScale ==
    /\ DbIdle
    /\ LoopIdle
    /\ QueryIdle
    /\ ClockIdle
    /\ TIMER = 0
    /\ holds = HoldData_new(MaxBuckets)
    /\ panic = "none"
    /\ hist = <<>>
    /\ inserted = {}
    /\ \E deltas \in ScaleDeltas : s_events = PlayedScale(60, deltas)
    /\ s_edits = 0
    /\ s_call = NoCall

ScaleOthers == <<holdVars, dbVars, loopVars, queryVars, clockVars, cleared>>

Altered(events) ==
    /\ s_edits < MaxEdits
    /\ s_events' = events
    /\ s_edits' = s_edits + 1
    /\ s_call' = NoCall
    /\ UNCHANGED ScaleOthers

\* the event at position j is of the other message type
ScaleRetype(j) ==
    Altered([s_events EXCEPT ![j].message_type = IF @ = NoteOn THEN NoteOff ELSE NoteOn])

\* the event at position j is of the key a semitone higher
ScaleRekey(j) ==
    Altered([s_events EXCEPT ![j].key = @ + 1])

\* the notes i and i + 1 (from 0) are played in the other order
ScaleSwap(i) ==
    Altered([j \in 1..16 |->
                IF (j - 1) \div 2 = i THEN [s_events[j] EXCEPT !.key = s_events[j + 2].key]
                ELSE IF (j - 1) \div 2 = i + 1
                     THEN [s_events[j] EXCEPT !.key = s_events[j - 2].key]
                     ELSE s_events[j]])

\* scale_matches_increments(&s_events, deltas)
ScaleMatch(deltas) ==
    /\ s_call' = [of |-> "scale_matches_increments", deltas |-> deltas,
                  result |-> scale_matches_increments(s_events, deltas)]
    /\ UNCHANGED <<s_events, s_edits>>
    /\ UNCHANGED ScaleOthers

NextScale ==
    \/ \E j \in 1..16 : ScaleRetype(j)
    \/ \E j \in 1..16 : ScaleRekey(j)
    \/ \E i \in 0..6 : ScaleSwap(i)
    \/ \E deltas \in ScaleDeltas : ScaleMatch(deltas)

SpecScale == InitScale /\ [][NextScale]_vars

----------------------------------------------------------------------------
(* Claims about the scale matcher, under SpecScale *)

\* the pair i (from 0) of the input
Down(events, i) == events[2 * i + 1]
Up(events, i) == events[2 * i + 2]

IsPair(events, i) ==
    /\ Down(events, i).message_type = NoteOn
    /\ Up(events, i).message_type = NoteOff
    /\ Down(events, i).key = Up(events, i).key

\* C10: on a 16-event input the matcher returns true exactly when the events are 8
\* (NoteOn k_i, NoteOff k_i) pairs with k_(i+1) - k_i = deltas[i] for i = 0..6; it
\* returns false when a pair is not (NoteOn, NoteOff), has differing keys, does
\* not ascend or ascends by another interval.
C10_ScaleMatcherResult ==
    s_call.of # "none" =>
        /\ Len(s_events) = 16
        /\ ~s_call.result.panicked
        /\ s_call.result.value <=>
               /\ \A i \in 0..7 : IsPair(s_events, i)
               /\ \A i \in 0..6 :
                      Down(s_events, i + 1).key - Down(s_events, i).key
                          = s_call.deltas[i + 1]
        /\ (\E i \in 0..6 : Down(s_events, i + 1).key <= Down(s_events, i).key)
               => ~s_call.result.value

\* C10, witness: the matcher has returned true for a scale, here the harmonic minor
C10_Witness ==
    /\ s_call.of # "none"
    /\ s_call.deltas = harmonic_minor_scale_deltas
    /\ s_call.result.value

\* the matcher has returned false for a scale of which two notes were swapped
C10_SwappedIsFalse ==
    /\ s_call.of # "none"
    /\ s_edits = 1
    /\ \A i \in 0..7 : IsPair(s_events, i)
    /\ \E i \in 0..6 : Down(s_events, i + 1).key < Down(s_events, i).key
    /\ ~s_call.result.value

----------------------------------------------------------------------------
(* SpecOctaves: scale_matches_increments on what was played so far of a scale *)
(* that goes up two octaves                                                   *)

MaxOctaveEdits == 1     \* the input is altered at most this many times

InitOctaves ==
    /\ DbIdle
    /\ LoopIdle
    /\ QueryIdle
    /\ ClockIdle
    /\ TIMER = 0
    /\ holds = HoldData_new(MaxBuckets)
    /\ panic = "none"
    /\ hist = <<>>
    /\ inserted = {}
    /\ \E deltas \in ScaleDeltas, n \in 0..32 :
           s_events = SubSeq(TwoOctaves(60, deltas), 1, n)
    /\ s_edits = 0
    /\ s_call = NoCall

\* the event at position j is of the key a semitone higher
OctaveRekey(j) ==
    /\ s_edits < MaxOctaveEdits
    /\ j <= Len(s_events)
    /\ s_events' = [s_events EXCEPT ![j].key = @ + 1]
    /\ s_edits' = s_edits + 1
    /\ s_call' = NoCall
    /\ UNCHANGED ScaleOthers

\* the event at position j is of the other message type
OctaveRetype(j) ==
    /\ s_edits < MaxOctaveEdits
    /\ j <= Len(s_events)
    /\ s_events' = [s_events EXCEPT
                       ![j].message_type = IF @ = NoteOn THEN NoteOff ELSE NoteOn]
    /\ s_edits' = s_edits + 1
    /\ s_call' = NoCall
    /\ UNCHANGED ScaleOthers

NextOctaves ==
    \/ \E j \in 1..32 : OctaveRekey(j)
    \/ \E j \in 1..32 : OctaveRetype(j)
    \/ \E deltas \in ScaleDeltas : ScaleMatch(deltas)

SpecOctaves == InitOctaves /\ [][NextOctaves]_vars

----------------------------------------------------------------------------
(* Claims about the scale matcher on inputs of any length, under SpecOctaves *)

\* C11: the matcher returns a boolean for every input: false for an input that is
\* empty, shorter than 16 or not a multiple of 16 long, and a true/false answer,
\* without an index out of range, for every input a positive multiple of 16 long.
C11_ScaleMatcherNeverErrors ==
    s_call.of # "none" =>
        /\ ~s_call.result.panicked
        /\ (Len(s_events) < 16 \/ Len(s_events) % 16 # 0) => ~s_call.result.value

\* the part of C11 about the inputs that are not 32 events long
C11_ShortInputsAnswered ==
    (s_call.of # "none" /\ Len(s_events) < 32) =>
        /\ ~s_call.result.panicked
        /\ (Len(s_events) < 16 \/ Len(s_events) % 16 # 0) => ~s_call.result.value

\* the matcher was called on 32 events whose first 9 pairs go up the scale, and
\* panicked
C11_TwoOctavesPanic ==
    /\ s_call.of # "none"
    /\ Len(s_events) = 32
    /\ s_call.result.panicked

----------------------------------------------------------------------------
(* music.rs: detect_run *)

\* what detect_run returns, or that it panicked
None == [kind |-> "None"]
Some(event) == [kind |-> "Some", event |-> event]
Panicked == [kind |-> "panic"]

\* the while loop of detect_run with the increments taken first to last
RECURSIVE DetectLoop_Forward(_, _, _, _)
DetectLoop_Forward(reverse_chron_key_events, in_order_increments, last_event, i) ==
    IF i < Len(reverse_chron_key_events)
    THEN LET current_event == reverse_chron_key_events[i + 1]
         IN  IF last_event.key - current_event.key # in_order_increments[i]
             THEN None
             ELSE DetectLoop_Forward(reverse_chron_key_events, in_order_increments,
                                     current_event, i + 1)
    ELSE Some(last_event)

\* the while loop of detect_run from index i (0-based) on; the keys are compared
\* as i16, the increments are i8
RECURSIVE DetectLoop(_, _, _, _)
DetectLoop(reverse_chron_key_events, in_order_increments, last_event, i) ==
    IF i < Len(reverse_chron_key_events)
    THEN LET current_event == reverse_chron_key_events[i + 1]
             incs_len == Len(in_order_increments)
         IN  IF last_event.key - current_event.key # in_order_increments[(incs_len - i) + 1]
             THEN None
             ELSE DetectLoop(reverse_chron_key_events, in_order_increments,
                             current_event, i + 1)
    ELSE Some(last_event)

\* detect_run that answers None to lists whose lengths do not fit
detect_run_Lenient(reverse_chron_key_events, in_order_increments) ==
    IF Len(reverse_chron_key_events) # Len(in_order_increments) + 1
    THEN None
    ELSE DetectLoop(reverse_chron_key_events, in_order_increments,
                    reverse_chron_key_events[1], 1)

detect_run(reverse_chron_key_events, in_order_increments) ==
    IF Len(reverse_chron_key_events) # Len(in_order_increments) + 1
    THEN Panicked
    ELSE DetectLoop(reverse_chron_key_events, in_order_increments,
                    reverse_chron_key_events[1], 1)

----------------------------------------------------------------------------
(* SpecRun: detect_run on the key ups of a log, newest first *)

MaxRunLen == 3          \* runs and increment lists are at most this long

RunKeys == {60, 62, 64}
RunIncrements == {-2, 2}

\* the sequences over S of length n
SeqsOf(S, n) == [1..n -> S]

\* the key ups of keys ks (newest first), stamped in the order they were played
KeyUps(ks) == [i \in 1..Len(ks) |-> KeyMessage((Len(ks) + 1 - i) * 100, NoteOff, ks[i])]

InitRun ==
    /\ DbIdle
    /\ LoopIdle
    /\ QueryIdle
    /\ ClockIdle
    /\ TIMER = 0
    /\ holds = HoldData_new(MaxBuckets)
    /\ panic = "none"
    /\ hist = <<>>
    /\ inserted = {}
    /\ \E n \in 0..MaxRunLen : \E ks \in SeqsOf(RunKeys, n) : s_events = KeyUps(ks)
    /\ s_edits = 0
    /\ s_call = NoCall

\* detect_run(&s_events, &in_order_increments)
DetectRun(in_order_increments) ==
    /\ s_call' = [of |-> "detect_run", increments |-> in_order_increments,
                  result |-> detect_run(s_events, in_order_increments)]
    /\ UNCHANGED <<s_events, s_edits>>
    /\ UNCHANGED ScaleOthers

NextRun ==
    \E n \in 0..MaxRunLen : \E incs \in SeqsOf(RunIncrements, n) : DetectRun(incs)

SpecRun == InitRun /\ [][NextRun]_vars

----------------------------------------------------------------------------
(* Claims about detect_run, under SpecRun *)

\* C12: detect_run called with events.len() # increments.len() + 1 panics; it
\* returns neither None nor Some.
C12_LengthContract ==
    (s_call.of = "detect_run" /\ Len(s_events) # Len(s_call.increments) + 1) =>
        s_call.result = Panicked

\* C12, witness: detect_run was called with a run and as many increments as events
C12_Witness ==
    /\ s_call.of = "detect_run"
    /\ Len(s_events) = 2
    /\ Len(s_call.increments) = 2
    /\ s_call.result = Panicked

\* the events in chronological order, c[0] the oldest
Chron(events, j) == events[Len(events) - j]

\* C13: given K + 1 events newest first and K increments, detect_run returns
\* Some(oldest event), the last element of the input, exactly when
\* c[j+1].key - c[j].key = increments[j] for every j in 0..K-1, and None otherwise.
C13_DetectRunResult ==
    (s_call.of = "detect_run" /\ Len(s_events) = Len(s_call.increments) + 1) =>
        LET K == Len(s_call.increments)
            fits == \A j \in 0..(K - 1) :
                        Chron(s_events, j + 1).key - Chron(s_events, j).key
                            = s_call.increments[j + 1]
        IN  s_call.result = IF fits THEN Some(s_events[Len(s_events)]) ELSE None

\* C13, witness: detect_run found a run that goes up and then down
C13_Witness ==
    /\ s_call.of = "detect_run"
    /\ s_call.increments = <<2, -2>>
    /\ s_call.result.kind = "Some"
    /\ s_call.result.event = s_events[3]

----------------------------------------------------------------------------
(* SpecClock: threads that call update_time() and get_time() *)

MaxClockCalls == 3      \* update_time is called at most this many times

InitClock ==
    /\ DbIdle
    /\ LoopIdle
    /\ QueryIdle
    /\ ScaleIdle
    /\ ClockIdle
    /\ TIMER = 0
    /\ holds = HoldData_new(MaxBuckets)
    /\ panic = "none"
    /\ hist = <<>>
    /\ inserted = {}

ClockOthers == <<holds, panic, hist, inserted, dbVars, loopVars, queryVars, scaleVars,
                 cleared>>

\* update_time() that loads TIMER and stores the sum later: thread t adds the
\* increment to the value it read last
ClockUpdate_LoadStore(t) ==
    /\ Len(c_returned) < MaxClockCalls
    /\ TIMER' = update_time_value(c_seen[t].cur)
    /\ c_returned' = Append(c_returned, c_seen[t].cur)
    /\ UNCHANGED c_seen
    /\ UNCHANGED ClockOthers

\* update_time() by thread t: TIMER.fetch_add(INCREMENT, SeqCst), one atomic
\* step that returns the value it replaced
ClockUpdate(t) ==
    /\ Len(c_returned) < MaxClockCalls
    /\ TIMER' = update_time_value(TIMER)
    /\ c_returned' = Append(c_returned, TIMER)
    /\ UNCHANGED c_seen
    /\ UNCHANGED ClockOthers

\* get_time() by thread t: TIMER.load(SeqCst)
ClockRead(t) ==
    /\ c_seen' = [c_seen EXCEPT ![t] = [prev |-> @.cur, cur |-> get_time]]
    /\ UNCHANGED <<TIMER, c_returned>>
    /\ UNCHANGED ClockOthers

NextClock ==
    \/ \E t \in ClockThreads : ClockUpdate(t)
    \/ \E t \in ClockThreads : ClockRead(t)

SpecClock == InitClock /\ [][NextClock]_vars

----------------------------------------------------------------------------
(* Claims about the logical clock, under SpecClock *)

\* C15: update_time adds the step (100) and returns the value it replaced; after n
\* calls, however interleaved, the clock is at 100 * n, the values returned are
\* distinct (they are 0, 100, ... in the order of the calls), and the successive
\* reads of a thread do not decrease, starting from 0.
C15_ClockAdvance ==
    /\ TIMER = INCREMENT * Len(c_returned)
    /\ \A i \in 1..Len(c_returned) : c_returned[i] = INCREMENT * (i - 1)
    /\ \A i, j \in 1..Len(c_returned) : i # j => c_returned[i] # c_returned[j]
    /\ \A t \in ClockThreads :
           /\ 0 <= c_seen[t].prev
           /\ c_seen[t].prev <= c_seen[t].cur
           /\ c_seen[t].cur <= TIMER

\* C15, witness: update_time was called after a thread had read the clock and again
\* before another had, and each thread has read a different time
C15_Witness ==
    /\ Len(c_returned) = MaxClockCalls
    /\ c_seen["t1"].cur > c_seen["t1"].prev
    /\ c_seen["t2"].cur > c_seen["t1"].cur
    /\ c_seen["t1"].prev > 0

----------------------------------------------------------------------------
(* Claims about KeyDb::clear called twice, under SpecDb *)

\* C16: clear called twice in a row leaves the log and the hold projection as the
\* first call left them: both empty, the capacity as it was.
C16_IdempotentClear ==
    /\ \A i \in 1..Len(cleared) :
           /\ cleared[i].log = <<>>
           /\ cleared[i].holds.buf = EmptyMap
    /\ Len(cleared) = 2 => cleared[2] = cleared[1]
    /\ (cleared # <<>> /\ pc["w"] = "idle") =>
           /\ linear_buf = cleared[Len(cleared)].log
           /\ holds = cleared[Len(cleared)].holds

\* C16, witness: clear has just returned for the second time in a row, on a store
\* whose projection has room for buckets
C16_Witness ==
    /\ Len(cleared) = 2
    /\ pc["w"] = "idle"
    /\ w_done = "clear"
    /\ holds.max_bucket_count > 0

----------------------------------------------------------------------------
(* SpecChord: is_minor_maj_7_chord on what was played so far of the chord, altered *)

MaxChordEdits == 2      \* the log is altered at most this many times

\* D4 and C5: a note that is not of the chord, and one of its notes an octave up
OtherKeys == {62, 72}

InitChord ==
    /\ DbIdle
    /\ LoopIdle
    /\ QueryIdle
    /\ ClockIdle
    /\ TIMER = 0
    /\ holds = HoldData_new(MaxBuckets)
    /\ panic = "none"
    /\ hist = <<>>
    /\ inserted = {}
    /\ \E n \in 0..Len(ChordSong) : s_events = SubSeq(ChordSong, 1, n)
    /\ s_edits = 0
    /\ s_call = NoCall

ChordAltered(events) ==
    /\ s_edits < MaxChordEdits
    /\ s_events' = events
    /\ s_edits' = s_edits + 1
    /\ s_call' = NoCall
    /\ UNCHANGED ScaleOthers

\* the event at position j is of key k
ChordRekey(j, k) ==
    /\ j <= Len(s_events)
    /\ ChordAltered([s_events EXCEPT ![j].key = k])

\* the event at position j is of the other message type
ChordRetype(j) ==
    /\ j <= Len(s_events)
    /\ ChordAltered([s_events EXCEPT
                        ![j].message_type = IF @ = NoteOn THEN NoteOff ELSE NoteOn])

\* the event at position j and those after it come timestamp_threshold later
ChordDelay(j) ==
    /\ j <= Len(s_events)
    /\ ChordAltered([i \in 1..Len(s_events) |->
                        IF i < j THEN s_events[i]
                        ELSE [s_events[i] EXCEPT !.timestamp = @ + timestamp_threshold]])

\* one more event, at the time of the last
ChordAppend(ty, k) ==
    ChordAltered(Append(s_events,
                        KeyMessage(IF s_events = <<>> THEN 0
                                   ELSE s_events[Len(s_events)].timestamp, ty, k)))

\* is_minor_maj_7_chord(&s_events)
ChordMatch ==
    /\ s_call' = [of |-> "is_minor_maj_7_chord", result |-> is_minor_maj_7_chord(s_events)]
    /\ UNCHANGED <<s_events, s_edits>>
    /\ UNCHANGED ScaleOthers

NextChord ==
    \/ \E j \in 1..(Len(ChordSong) + MaxChordEdits), k \in OtherKeys : ChordRekey(j, k)
    \/ \E j \in 1..(Len(ChordSong) + MaxChordEdits) : ChordRetype(j)
    \/ \E j \in 1..(Len(ChordSong) + MaxChordEdits) : ChordDelay(j)
    \/ \E ty \in MidiMessageTypes, k \in OtherKeys : ChordAppend(ty, k)
    \/ ChordMatch

SpecChord == InitChord /\ [][NextChord]_vars

----------------------------------------------------------------------------
(* Claims about the chord detection on the flat log, under SpecChord *)

\* the NoteOn events of a log
KeyDowns(log) == SelectSeq(log, LAMBDA m : m.message_type = NoteOn)

\* the names of the notes a..b of a sequence of key downs
NamesOf(kd, a, b) == {note_name(kd[i].key) : i \in a..b}

\* the key downs a..b lie within the window that opens with a
WithinWindow(kd, a, b) ==
    \A i \in a..b : kd[i].timestamp - kd[a].timestamp < timestamp_threshold

\* C17 as stated: the answer is true exactly when some run of NoteOn events lying
\* within 30000 ticks of its first has the set of note names {C, Eb, G, B}, whatever
\* the NoteOff events and the length of the log.
C17_ChordDetection ==
    s_call.of = "is_minor_maj_7_chord" =>
        LET kd == KeyDowns(s_events)
        IN  s_call.result <=>
                \E a \in 1..Len(kd) : \E b \in a..Len(kd) :
                    /\ WithinWindow(kd, a, b)
                    /\ NamesOf(kd, a, b) = major_minor_chord_c

\* C17, amended: the answer is true exactly when the log has at least 8 events and
\* some NoteOn opens a window of 30000 ticks in which there are exactly four
\* NoteOn events, the opening one included, one of each of the names C, Eb, G, B.
C17_ChordInFullWindow ==
    s_call.of = "is_minor_maj_7_chord" =>
        LET kd == KeyDowns(s_events)
        IN  s_call.result <=>
                /\ Len(s_events) >= 8
                /\ \E a \in 1..Len(kd) :
                       LET window == {i \in a..Len(kd) :
                                         kd[i].timestamp - kd[a].timestamp
                                             < timestamp_threshold}
                       IN  /\ Cardinality(window) = 4
                           /\ {note_name(kd[i].key) : i \in window} = major_minor_chord_c

\* C17, witness: the chord was found in a log that begins with a NoteOn and has
\* more NoteOn events than the four of the chord
C17_Witness ==
    /\ s_call.of = "is_minor_maj_7_chord"
    /\ s_call.result
    /\ Len(KeyDowns(s_events)) > 4
    /\ s_events[1].message_type = NoteOn

\* the chord is in the log, within the window, and was not found: the log is
\* short, or a fifth NoteOn of the window follows it
C17_ChordMissed ==
    /\ s_call.of = "is_minor_maj_7_chord"
    /\ ~s_call.result
    /\ Len(s_events) >= 8
    /\ LET kd == KeyDowns(s_events)
       IN  /\ Len(kd) >= 4
           /\ WithinWindow(kd, 1, 4)
           /\ NamesOf(kd, 1, 4) = major_minor_chord_c

----------------------------------------------------------------------------
(* Claims about the end of a run by a listener, under SpecListeners *)

\* a run-end listener reports the end of the run on this log
ListenerHit(buf) ==
    AscendingScaleNotifier(buf).value \/ MinorMajor7ChordListener(buf).value

\* C18: when the accepted event makes a listener report the end of the run, the
\* log is cleared and the heartbeat counter reset in that accept, before any later
\* event is appended: the log never holds a completed run, alone or with later
\* events, and it holds every event accepted since the last reset (the reset
\* discards no later event, which is still in the channel or not yet sent).
C18_RunEndOnListener ==
    /\ last.step = "accept_end_run" =>
           /\ kb.buf = <<>>
           /\ kb.heartbeat_count = 0
           /\ run_start = Len(accepted)
    /\ \A n \in 1..Len(kb.buf) : ~ListenerHit(SubSeq(kb.buf, 1, n))
    /\ kb.buf = SubSeq(accepted, run_start + 1, Len(accepted))
    /\ accepted \o playback_chan = Sent

\* C18, witness: the scale has ended the run at its 16th event, and the note
\* played after it is in the log, alone
C18_Witness ==
    /\ song = 3
    /\ run_start = 16
    /\ Len(kb.buf) = 1
    /\ last.step = "accept"
    /\ last.len = 0

----------------------------------------------------------------------------
(* Claims about the lock discipline of KeyDb, under SpecDb *)

\* the thread is inside no KeyDb method: it has returned (and runs its caller's
\* code: a matcher on the copy it got, a channel send) or it has panicked
Outside(t) == pc[t] \in {"idle", "panicked"}

\* the locks the thread holds
HeldBy(t) ==
    {l \in {"log", "holds"} :
        IF t = "w" THEN lock[l].writer ELSE t \in lock[l].readers}

\* a step inside a KeyDb method: everything but the first lock of a call
MethodStep ==
    \/ PushLog \/ PushTryWrite \/ PushUpdate
    \/ ClearLog \/ ClearLockHolds \/ ClearHolds
    \/ ReadLog \/ GetHoldData \/ PrintHolds

\* C19: a thread that is outside the KeyDb methods holds no lock (so none is held
\* across a matcher call or a channel send of the caller), no thread ever holds
\* the log lock and the projection lock together, and the threads never wait for
\* each other: while any thread is inside a method, some thread inside a method
\* can take its next step.
C19_LockDiscipline ==
    /\ \A t \in {"w", "r"} :
           /\ Outside(t) => HeldBy(t) = {}
           /\ Cardinality(HeldBy(t)) <= 1
    /\ (\E t \in {"w", "r"} : ~Outside(t)) => ENABLED MethodStep

\* C19, witness: clear waits for the projection lock while a reader holds it,
\* after a push has gone through both locks
C19_Witness ==
    /\ pc["w"] = "clear_wait"
    /\ HeldBy("r") = {"holds"}
    /\ HeldBy("w") = {}
    /\ applied # <<>>

----------------------------------------------------------------------------
(* Claims about update on an empty projection, under SpecHold *)

\* the map update(NoteOn k) at tick ts makes of an empty one
FirstBucket(ts, k) == [t \in {ts} |-> <<KeyStatus(k, PRESS)>>]

\* C20: update on a projection without a bucket (a new one, or one just cleared)
\* does not panic, whatever the capacity; for a NoteOff it leaves the projection
\* as it is, for a NoteOn of key k it leaves exactly one bucket, keyed by the
\* current tick, whose only entry is k: PRESS.
C20_UpdateOnEmpty ==
    [][\A msg \in HoldMessages :
           (HoldUpdate(msg) /\ DOMAIN holds.buf = {}) =>
               /\ panic' = "none"
               /\ holds'.max_bucket_count = holds.max_bucket_count
               /\ holds'.buf = IF msg.message_type = NoteOn
                               THEN FirstBucket(get_time, msg.key)
                               ELSE EmptyMap]_vars

\* C20, witness: a NoteOn has been applied to a projection of capacity 0 that had
\* no bucket, after the clock has advanced
C20_Witness ==
    /\ hist # <<>>
    /\ hist[1].on_empty
    /\ hist[1].msg.message_type = NoteOn
    /\ hist[1].ts > 0
    /\ holds.max_bucket_count = 0
    /\ holds.buf = FirstBucket(hist[1].ts, hist[1].msg.key)

\* C20: a NoteOff has been applied to a projection that had no bucket, and has
\* left it without one
C20_ReleaseOnEmpty ==
    /\ hist # <<>>
    /\ hist[1].on_empty
    /\ hist[1].msg.message_type = NoteOff
    /\ holds.buf = EmptyMap

----------------------------------------------------------------------------
(* Claims about the entries of a bucket, under SpecHold *)

\* the positions of a bucket with status PRESS
PressAt(bucket) == {i \in 1..Len(bucket) : bucket[i].status = PRESS}

\* the entries a bucket has for key k that are PRESS or DOWN
LiveEntries(bucket, k) ==
    SelectSeq(bucket, LAMBDA hold : hold.key = k /\ hold.status # EMPTY)

\* C21: every bucket has at most one PRESS entry, and it is its last entry; the
\* bucket an update writes has a PRESS entry exactly when the update is a NoteOn,
\* and then it is the entry of that NoteOn's key, while every other bucket that
\* is retained stays as it was; a NoteOn for a key that already has PRESS or DOWN
\* entries in the newest bucket adds one more entry for that key.
C21_SinglePress ==
    /\ [](\A t \in DOMAIN holds.buf : PressAt(holds.buf[t]) \subseteq {Len(holds.buf[t])})
    /\ [][\A msg \in HoldMessages :
              (/\ HoldUpdate(msg)
               /\ panic' = "none"
               /\ DOMAIN holds.buf # {} \/ msg.message_type = NoteOn) =>
                  LET old == NewestBucket(holds.buf)
                      new == holds'.buf[get_time]
                  IN  /\ (PressAt(new) # {}) <=> (msg.message_type = NoteOn)
                      /\ msg.message_type = NoteOn =>
                             /\ new[Len(new)] = KeyStatus(msg.key, PRESS)
                             /\ Len(Statuses(new, msg.key))
                                    = Len(LiveEntries(old, msg.key)) + 1
                      /\ \A t \in DOMAIN holds'.buf \ {get_time} :
                             /\ t \in DOMAIN holds.buf
                             /\ holds'.buf[t] = holds.buf[t]]_vars

\* C21, witness: a NoteOn for a key that was already down has left two entries
\* for it in the bucket, DOWN and PRESS, and an older bucket is retained
C21_Witness ==
    /\ hist # <<>>
    /\ hist[1].msg.message_type = NoteOn
    /\ ~hist[1].on_empty
    /\ Statuses(NewestBucket(holds.buf), hist[1].msg.key) = <<DOWN, PRESS>>
    /\ Cardinality(DOMAIN holds.buf) = 2

\* key k has a PRESS or DOWN entry in the bucket
IsDown(bucket, k) == LiveEntries(bucket, k) # <<>>

\* the ticks of the retained buckets older than tick t
OlderTicks(t) == {u \in DOMAIN holds.buf : u < t}

\* C22: a key that is DOWN in a bucket is PRESS or DOWN in the retained bucket
\* just before it, when there is one; and a key first pressed during tick t is
\* not DOWN in the bucket of tick t: while all updates since the last clear
\* happened at one tick, no entry is DOWN.
C22_DownSincePreviousBucket ==
    /\ \A t \in DOMAIN holds.buf : \A i \in 1..Len(holds.buf[t]) :
           (holds.buf[t][i].status = DOWN /\ OlderTicks(t) # {}) =>
               IsDown(holds.buf[SetMax(OlderTicks(t))], holds.buf[t][i].key)
    /\ Cardinality(inserted) = 1 =>
           \A t \in DOMAIN holds.buf : \A i \in 1..Len(holds.buf[t]) :
               holds.buf[t][i].status # DOWN

\* C22: two keys were pressed at the same tick, the first since the last clear,
\* and the bucket of that tick records the first of them as DOWN
C22_DownInFirstBucket ==
    /\ inserted = {get_time}
    /\ DOMAIN holds.buf = {get_time}
    /\ holds.buf[get_time] = <<KeyStatus(60, DOWN), KeyStatus(61, PRESS)>>

\* C23: an update at the tick of the newest bucket does not panic and overwrites
\* that bucket in place, with the entries computed from it: the buckets retained
\* are the same ticks as before (none is evicted, whatever the capacity, none is
\* added), and every older bucket is as it was.
C23_SameTickCoalescing ==
    [][\A msg \in HoldMessages :
           (/\ HoldUpdate(msg)
            /\ DOMAIN holds.buf # {}
            /\ SetMax(DOMAIN holds.buf) = get_time) =>
               /\ panic' = "none"
               /\ DOMAIN holds'.buf = DOMAIN holds.buf
               /\ holds'.buf[get_time] = NewHolds(holds.buf[get_time], msg)
               /\ \A t \in DOMAIN holds.buf \ {get_time} :
                      holds'.buf[t] = holds.buf[t]]_vars

\* C23, witness: the projection is at its capacity of two buckets, written at the
\* only two ticks since the last clear, and the newest bucket records DOWN a key
\* the older bucket has no entry for: the key was pressed at the newest tick and
\* a later update at that tick overwrote the bucket
C23_Witness ==
    /\ holds.max_bucket_count = 2
    /\ Cardinality(DOMAIN holds.buf) = 2
    /\ inserted = DOMAIN holds.buf
    /\ hist # <<>>
    /\ hist[1].ts = SetMax(DOMAIN holds.buf)
    /\ \E k \in HoldKeys :
           /\ DOWN \in {NewestBucket(holds.buf)[i].status :
                           i \in {j \in 1..Len(NewestBucket(holds.buf)) :
                                     NewestBucket(holds.buf)[j].key = k}}
           /\ ~HasKey(holds.buf[SetMin(DOMAIN holds.buf)], k)

----------------------------------------------------------------------------
(* Claims about the timing of the idle reset, under SpecLoop *)

\* C24: the idle reset fires while handling the heartbeat whose increment first
\* takes the counter above the threshold: the heartbeat that resets finds the
\* counter at the threshold, being the 101st heartbeat since the last reset for
\* threshold 100.
C24_IdleThresholdTiming ==
    last.step = "auto_new_run" => last.hb = HEARTBEATS_PER_AUTO_NEW_RUN

\* C24, what the loop does: the heartbeat that resets finds the counter already
\* above the threshold, at threshold + 1, and leaves it at 1: it is the 102nd
\* heartbeat after a reset that left the counter at 0 (the start, a NewRun, a
\* listener) and the 101st after the heartbeat of the previous idle reset.
C24_FiresOneHeartbeatLater ==
    /\ last.step = "auto_new_run" =>
           /\ last.hb = HEARTBEATS_PER_AUTO_NEW_RUN + 1
           /\ kb.heartbeat_count = 1
    /\ last.step \in {NewRun, "accept_end_run"} => kb.heartbeat_count = 0
    /\ kb.heartbeat_count <= HEARTBEATS_PER_AUTO_NEW_RUN + 1

\* C24: the 101st heartbeat since the start has been handled, with no event and
\* no NewRun before it, and has not reset the run
C24_NoResetAtThreshold ==
    /\ last.step = Heartbeat
    /\ last.hb = HEARTBEATS_PER_AUTO_NEW_RUN
    /\ kb.heartbeat_count = HEARTBEATS_PER_AUTO_NEW_RUN + 1
    /\ accepted = <<>>
    /\ run_start = 0

----------------------------------------------------------------------------
(* Claims about the alternation of the two channels, under SpecTurnsFair *)

\* C25: the loop takes its two receives in turn: the receive on the event
\* channel accepts the event at its head, if there is one, and only that one, and
\* the loop turns to the control channel; the receive on the control channel
\* handles the message at its head, if there is one, and only that one, and the
\* loop turns to the event channel.  So a pending message of either channel waits
\* for at most one message of the other.  The loop never stops: its next receive
\* can always be taken, and a pending control message comes to be handled, a
\* pending event to be accepted.
C25_NoStarvation ==
    /\ [][/\ LoopPlayback =>
                /\ loop_pc' = "control"
                /\ IF playback_chan # <<>>
                   THEN /\ accepted' = Append(accepted, Head(playback_chan))
                        /\ playback_chan' = Tail(playback_chan)
                   ELSE UNCHANGED <<accepted, playback_chan>>
          /\ LoopControl =>
                /\ loop_pc' = "playback"
                /\ IF control_chan # <<>>
                   THEN control_chan' = Tail(control_chan)
                   ELSE UNCHANGED control_chan]_vars
    /\ [](loop_pc \in {"playback", "control"} /\ ENABLED (LoopPlayback \/ LoopControl))
    /\ (control_chan # <<>>) ~> (control_chan = <<>>)
    /\ (playback_chan # <<>>) ~> (playback_chan = <<>>)

\* C25, witness: a heartbeat has just been handled while an event waits in the
\* event channel, after an event was accepted and with more events to come
C25_Witness ==
    /\ last.step = Heartbeat
    /\ loop_pc = "playback"
    /\ playback_chan # <<>>
    /\ accepted # <<>>
    /\ n_sent < Len(Songs[song])

----------------------------------------------------------------------------
(* Claims about the snapshots the readers get, under SpecDb *)

\* the sequence a is the beginning of the sequence b
PrefixOf(a, b) == Len(a) <= Len(b) /\ a = SubSeq(b, 1, Len(a))

\* a step of the writer inside push_msg or clear
WriterStep ==
    \/ \E msg \in DbMessages : PushLockLog(msg)
    \/ PushLog \/ PushTryWrite \/ PushUpdate
    \/ ClearLockLog \/ ClearLog \/ ClearLockHolds \/ ClearHolds

\* C26: while a reader copies the log or the projection, the writer is not inside
\* the statement that changes it, so the value flat_message_log returns is the
\* whole log as it is at the instant of the copy, and the value get_hold_data
\* returns the whole map; the log being the events pushed since the last clear
\* in push order, the returned log stays a prefix of the log until the next clear
\* empties it; and no step of push_msg or clear changes a returned value.
C26_SnapshotConsistency ==
    /\ [](/\ pc["r"] = "read_log" => pc["w"] \notin {"push_log", "clear_log"}
          /\ pc["r"] = "get_hold_data" => pc["w"] \notin {"push_update", "clear_holds"})
    /\ [][/\ ReadLog => (view' = [of |-> "log", value |-> linear_buf]
                         /\ linear_buf' = linear_buf)
          /\ GetHoldData => (view' = [of |-> "holds", value |-> holds.buf]
                             /\ holds' = holds)
          /\ WriterStep => view' = view
          /\ (/\ view.of = "log"
              /\ view'.of = "log"
              /\ PrefixOf(view.value, linear_buf)
              /\ ~ClearLog) => PrefixOf(view'.value, linear_buf')]_vars

\* C26, witness: the reader has returned from flat_message_log with a log of one
\* event, and a push that came later has made the log longer than the copy
C26_Witness ==
    /\ pc["r"] = "idle"
    /\ view.of = "log"
    /\ Len(view.value) = 1
    /\ Len(linear_buf) = 2
    /\ PrefixOf(view.value, linear_buf)

----------------------------------------------------------------------------
(* SpecStore: one thread calls push_msg and clear on a KeyDb, the clock ticks *)

MaxStoreLog == 3        \* push_msg is called while the log is shorter than this

InitStore ==
    /\ DbIdle
    /\ RestIdle
    /\ TIMER = 0
    /\ \E c \in 0..MaxBuckets : holds = HoldData_new(c)
    /\ panic = "none"
    /\ hist = <<>>
    /\ inserted = {}

\* the ticker thread of start_timer: update_time()
StoreTick ==
    /\ TIMER < MaxTicks * INCREMENT
    /\ TIMER' = update_time_value(TIMER)
    /\ UNCHANGED <<holds, panic, hist, inserted, dbVars>>
    /\ UNCHANGED restVars

\* push_msg(msg) with no other thread: both locks are free, the event is pushed
\* to the log and update(msg) runs; a panic of update ends the thread
StorePush(msg) ==
    /\ panic = "none"
    /\ Len(linear_buf) < MaxStoreLog
    /\ LET r == HoldData_update(holds, msg, get_time)
       IN  /\ linear_buf' = Append(linear_buf, msg)
           /\ holds' = r.hd
           /\ panic' = IF r.panicked THEN "unwrap_none" ELSE "none"
           /\ w_done' = IF r.panicked THEN w_done ELSE "push_msg"
    /\ UNCHANGED <<TIMER, hist, inserted, lock, pc, w_msg, applied, view>>
    /\ UNCHANGED restVars

\* clear() with no other thread
StoreClear ==
    /\ panic = "none"
    /\ linear_buf' = <<>>
    /\ holds' = HoldData_clear(holds)
    /\ w_done' = "clear"
    /\ UNCHANGED <<TIMER, panic, hist, inserted, lock, pc, w_msg, applied, view>>
    /\ UNCHANGED restVars

NextStore ==
    \/ StoreTick
    \/ \E msg \in HoldMessages : StorePush(msg)
    \/ StoreClear

SpecStore == InitStore /\ [][NextStore]_vars

\* the most recent event of key k in the log is a NoteOn
LastIsNoteOn(log, k) ==
    \E i \in 1..Len(log) :
        /\ log[i].key = k
        /\ log[i].message_type = NoteOn
        /\ \A j \in (i + 1)..Len(log) : log[j].key # k

\* C27: with capacity >= 1, after any sequence of push_msg and clear calls of one
\* thread, the keys with a PRESS or DOWN entry in the newest bucket are the keys
\* whose most recent event in the log is a NoteOn (none when the projection is
\* empty), and no call has panicked.
C27_ProjectionAgreesWithLog ==
    holds.max_bucket_count >= 1 =>
        /\ panic = "none"
        /\ {k \in HoldKeys : IsDown(NewestBucket(holds.buf), k)}
               = {k \in HoldKeys : LastIsNoteOn(linear_buf, k)}

\* C27, witness: a key pressed twice and released once: both entries of the key
\* are EMPTY in the newest bucket
C27_Witness ==
    /\ holds.max_bucket_count >= 1
    /\ Len(linear_buf) = 3
    /\ linear_buf[3].message_type = NoteOff
    /\ Statuses(NewestBucket(holds.buf), linear_buf[3].key) = <<EMPTY, EMPTY>>

----------------------------------------------------------------------------
(* Claims about a push that meets a reader of the projection, under SpecDb *)

\* C28: a push_msg issued while a reader is inside get_hold_data or print_holds
\* waits for the reader and then applies its event: no push_msg ends in the
\* failure of try_write while a reader holds the lock of the projection.
C28_ReadersNeverFailPush ==
    ~(/\ panic = "try_write_unwrap"
      /\ ~lock.holds.poisoned
      /\ pc["r"] \in {"get_hold_data", "print_holds"})

\* C28: the writer has panicked in push_msg with its event in the log and not in
\* the projection, while the reader is inside print_holds
C28_PushFailedOnReader ==
    /\ pc["w"] = "panicked"
    /\ panic = "try_write_unwrap"
    /\ pc["r"] = "print_holds"
    /\ linear_buf = Append(applied, w_msg)

----------------------------------------------------------------------------
(* Claims about update and the capacity, under SpecHold *)

\* C29: update completes without a panic for every max_bucket_count, 0 and 1
\* included, and every sequence of events and ticks: the eviction loop never
\* removes from an empty map.
C29_UpdateNeverFails ==
    panic # "unwrap_none"

\* C29 for max_bucket_count >= 1: no update panics
C29_UpdateNeverFailsFromOne ==
    holds.max_bucket_count >= 1 => panic = "none"

\* C29: with max_bucket_count = 0 an update at a later tick than the only bucket
\* has emptied the map and panicked
C29_PanicAtCapacityZero ==
    /\ holds.max_bucket_count = 0
    /\ panic = "unwrap_none"
    /\ holds.buf = EmptyMap
    /\ inserted # {}

----------------------------------------------------------------------------
(* SpecLongScale: the dispatch loop while the device plays a scale that goes *)
(* up two octaves, NewRun and Print typed at any time                        *)

MaxBeats == 2       \* the heartbeat thread sends while heartbeat_count is below this

InitLongScale == LoopStarts(4)

\* the heartbeat thread, for a while
FewHeartbeatSend ==
    /\ kb.heartbeat_count < MaxBeats
    /\ HeartbeatSend

NextLongScale ==
    \/ DeviceSend
    \/ FewHeartbeatSend
    \/ \E msg \in {PrintRun, NewRun} : StdinSend(msg)
    \/ LoopPlayback
    \/ LoopControl

SpecLongScale == InitLongScale /\ [][NextLongScale]_vars

\* the two delta lists of AscendingScaleNotifier
NotifierDeltas == {major_scale_deltas, harmonic_minor_scale_deltas}

\* C30: the loop thread never panics in a listener.  Every prefix of the log is a
\* buffer the scale listener was called with since the last reset: on none of
\* them did scale_matches_increments panic, and none of them matches, a buffer
\* that matched at its 16th event having been cleared in that accept; so on a
\* buffer of 32 events the first eight pairs do not all pass and the evaluation
\* ends before the pair with index 8.
C30_ScaleListenerSafe ==
    /\ loop_pc # "panicked"
    /\ kb.buf = SubSeq(accepted, run_start + 1, Len(accepted))
    /\ \A deltas \in NotifierDeltas :
           /\ \A n \in 1..Len(kb.buf) :
                  scale_matches_increments(SubSeq(kb.buf, 1, n), deltas) = Returns(FALSE)
           /\ Len(kb.buf) >= 16 =>
                  ScalePairs(SubSeq(kb.buf, 1, 16), deltas, 0, kb.buf[1].key)
                      = Returns(FALSE)

\* C30, witness: a NewRun came after the first note, the first octave of the
\* scale then ended a run at its 16th event, and the rest of the scale has been
\* accepted into the log
C30_Witness ==
    /\ song = 4
    /\ accepted = Songs[4]
    /\ run_start = 18
    /\ Len(kb.buf) = 16
    /\ kb.buf[1].key = 74

\* C30: the scale listener has been called with a log of 32 events
C30_LongLogEvaluated ==
    /\ song = 4
    /\ Len(kb.buf) = 32
    /\ last.step = "accept"

----------------------------------------------------------------------------
(* practice_program.rs: the calls of detect_run made by on_keypress *)

major_scale_up_and_down_deltas == <<2, 2, 1, 2, 2, 2, 1, -1, -2, -2, -2, -1, -2, -2>>

\* a call of detect_run: its two arguments
Call(events, increments) == [events |-> events, increments |-> increments]

\* FreePlayPracticeProgram::on_keypress, lines 73-106: the calls of detect_run it
\* makes when last_n_key_ups_reversed(15) has returned reverse_chron_key_events
FreePlay_detect_runs(reverse_chron_key_events) ==
    (IF Len(reverse_chron_key_events) > 7
     THEN <<Call(SubSeq(reverse_chron_key_events, 1, 8), major_scale_deltas),
            Call(SubSeq(reverse_chron_key_events, 1, 8), harmonic_minor_scale_deltas)>>
     ELSE <<>>)
    \o (IF Len(reverse_chron_key_events) > 14
        THEN <<Call(SubSeq(reverse_chron_key_events, 1, 15),
                    major_scale_up_and_down_deltas)>>
        ELSE <<>>)

\* CircleOfFourths on_keypress that calls detect_run from 8 key ups on
CircleOfFourths_detect_runs_From8(reverse_chron_key_events) ==
    IF Len(reverse_chron_key_events) > 7
    THEN <<Call(reverse_chron_key_events, major_scale_up_and_down_deltas)>>
    ELSE <<>>

\* CircleOfFourthsPracticeProgram::on_keypress, lines 171-177 (state LISTENING)
CircleOfFourths_detect_runs(reverse_chron_key_events) ==
    IF Len(reverse_chron_key_events) > 14
    THEN <<Call(reverse_chron_key_events, major_scale_up_and_down_deltas)>>
    ELSE <<>>

Programs == {"FreePlay", "CircleOfFourths"}

detect_runs(program, reverse_chron_key_events) ==
    IF program = "FreePlay"
    THEN FreePlay_detect_runs(reverse_chron_key_events)
    ELSE CircleOfFourths_detect_runs(reverse_chron_key_events)

\* what is recorded of a call of detect_run: the lengths of its arguments and
\* its result
Outcome(call) ==
    [n_events |-> Len(call.events), n_increments |-> Len(call.increments),
     result |-> detect_run(call.events, call.increments)]

----------------------------------------------------------------------------
(* SpecPractice: a practice program thread runs on_keypress while the device *)
(* pushes the up-and-down scale to the KeyDb and the log is cleared at any   *)
(* time                                                                      *)

QueryN == 15        \* the n of last_n_key_ups_reversed(15)

InitPractice == LoopStarts(5)

PracticeOthers == <<TIMER, hist, inserted, lock, w_msg, w_done, applied, kb, playback_chan,
                    control_chan, loop_pc, song, accepted, last, hb_since_reset, evt_late,
                    run_start, queryVars, s_events, s_edits, clockVars, cleared>>

\* the device callback: push_msg of the next event of the song
PracticePush ==
    /\ n_sent < Len(Songs[song])
    /\ linear_buf' = Append(linear_buf, Songs[song][n_sent + 1])
    /\ holds' = HoldData_update(holds, Songs[song][n_sent + 1], get_time).hd
    /\ n_sent' = n_sent + 1
    /\ UNCHANGED <<panic, pc, view, s_call>>
    /\ UNCHANGED PracticeOthers

\* KeyDb::clear, at any time
PracticeClear ==
    /\ linear_buf # <<>>
    /\ linear_buf' = <<>>
    /\ holds' = HoldData_clear(holds)
    /\ UNCHANGED <<panic, pc, view, s_call, n_sent>>
    /\ UNCHANGED PracticeOthers

\* on_keypress, line 73 or 171: last_n_key_ups_reversed(15) returns its copy
PracticeQuery ==
    /\ pc["r"] = "idle"
    /\ view' = [of |-> "key_ups", value |-> last_n_key_ups_reversed(linear_buf, QueryN)]
    /\ pc' = [pc EXCEPT !["r"] = "on_keypress"]
    /\ s_call' = NoCall
    /\ UNCHANGED <<panic, linear_buf, holds, n_sent>>
    /\ UNCHANGED PracticeOthers

\* on_keypress, the rest: the calls of detect_run on the copy; a panic of
\* detect_run ends the thread
PracticeDetect(program) ==
    /\ pc["r"] = "on_keypress"
    /\ LET calls == detect_runs(program, view.value)
           outcomes == [i \in 1..Len(calls) |-> Outcome(calls[i])]
           panicked == \E i \in 1..Len(calls) : outcomes[i].result = Panicked
       IN  /\ s_call' = [of |-> program, calls |-> outcomes,
                         queried |-> Len(view.value), log_empty |-> linear_buf = <<>>]
           /\ pc' = [pc EXCEPT !["r"] = IF panicked THEN "panicked" ELSE "idle"]
           /\ panic' = IF panicked THEN "detect_run" ELSE panic
    /\ view' = [of |-> "none", value |-> <<>>]
    /\ UNCHANGED <<linear_buf, holds, n_sent>>
    /\ UNCHANGED PracticeOthers

NextPractice ==
    \/ PracticePush
    \/ PracticeClear
    \/ PracticeQuery
    \/ \E program \in Programs : PracticeDetect(program)

SpecPractice == InitPractice /\ [][NextPractice]_vars

\* C31: every call of detect_run a practice program makes passes one event more
\* than increments, 8 events with 7 increments or 15 events with 14, and does
\* not panic, whatever the log held at the query and whatever was pushed or
\* cleared between the query and the calls.
C31_PracticeRespectsContract ==
    /\ panic = "none"
    /\ pc["r"] # "panicked"
    /\ s_call.of \in Programs =>
           \A i \in 1..Len(s_call.calls) :
               /\ s_call.calls[i].n_events = s_call.calls[i].n_increments + 1
               /\ <<s_call.calls[i].n_events, s_call.calls[i].n_increments>>
                      \in {<<8, 7>>, <<15, 14>>}
               /\ s_call.calls[i].result # Panicked

\* C31, witness: the circle-of-fourths program has called detect_run with the
\* 15 key ups of the scale played up and down, and found the scale, the log
\* having been cleared between its query and its call
C31_Witness ==
    /\ s_call.of = "CircleOfFourths"
    /\ s_call.queried = 15
    /\ s_call.log_empty
    /\ Len(s_call.calls) = 1
    /\ s_call.calls[1].result.kind = "Some"

\* C31: the free-play program has made its three calls
C31_FreePlayThreeCalls ==
    /\ s_call.of = "FreePlay"
    /\ Len(s_call.calls) = 3

----------------------------------------------------------------------------
(* the keys of the buckets *)

\* timestamps an event can carry besides those of HoldStamps: between two
\* ticks, at a tick, and after every tick of the clock
OtherStamps == {50, INCREMENT, (MaxTicks + 1) * INCREMENT}

\* msg with another timestamp
Stamped(msg, ts) == [msg EXCEPT !.timestamp = ts]

\* C32: every bucket key is at most get_time(); the newest bucket is the one
\* the last update wrote, at the clock value that update read; an update leaves
\* the same HoldData whatever the timestamp of its event; and the bucket an
\* update writes is keyed by get_time(), which no key already there exceeds.
C32_BucketsKeyedByClock ==
    /\ [](/\ \A k \in DOMAIN holds.buf : k <= get_time
          /\ DOMAIN holds.buf \subseteq inserted
          /\ DOMAIN holds.buf # {} =>
                 /\ hist # <<>>
                 /\ hist[1].wrote
                 /\ hist[1].ts = SetMax(DOMAIN holds.buf)
          /\ \A msg \in HoldMessages : \A ts \in OtherStamps :
                 HoldData_update(holds, Stamped(msg, ts), get_time)
                     = HoldData_update(holds, msg, get_time))
    /\ [][\A msg \in HoldMessages :
              (HoldUpdate(msg) /\ panic' = "none" /\ hist'[1].wrote) =>
                  /\ get_time \in DOMAIN holds'.buf
                  /\ get_time = SetMax(DOMAIN holds'.buf)
                  /\ \A k \in DOMAIN holds.buf : k <= get_time
                  /\ inserted' = inserted \cup {get_time}]_vars

\* C32, witness: an update has written a second bucket, keyed by a clock value
\* other than the timestamp of its event, and it is the newest bucket
C32_Witness ==
    /\ hist # <<>>
    /\ hist[1].wrote
    /\ hist[1].ts # hist[1].msg.timestamp
    /\ hist[1].ts = get_time
    /\ Cardinality(DOMAIN holds.buf) = 2
    /\ SetMax(DOMAIN holds.buf) = hist[1].ts

====
